---- MODULE Spec2Model ----
(***************************************************************************)
(* A model of the gostatsd pipeline pieces found under src/:               *)
(*   - CloudHandler (pkg/statsd, cloud enrichment with per-IP lookups)     *)
(*   - worker (pkg/statsd, one aggregator shard's goroutine)               *)
(*   - datadog.Client (SendMetricsAsync buffer pool, processMetrics)       *)
(* Each component has its own next-state relation and specification; the   *)
(* variables of the other components stay at their initial values.         *)
(***************************************************************************)
EXTENDS Integers, Sequences, FiniteSets, TLC

\* ------------------------------------------------------------------------
\* Bounds of the model
\* ------------------------------------------------------------------------
MaxBatch == 2          \* metrics in one DispatchMetricMap call
LookupMetrics == 2     \* SpecLookup: metrics passed in one behaviour
LookupEvents == 1      \* SpecLookup: events passed in one behaviour
ShutdownEvents == 3    \* SpecShutdown: events passed in one behaviour
CapturedEvents == 3    \* SpecEvents: events passed in one behaviour
EnrichMetrics == 1     \* SpecEnrich: metrics passed in one behaviour
EnrichEvents == 1      \* SpecEnrich: events passed in one behaviour
MaxLive == 3           \* SpecLive: metrics in flight at once in an endless stream
MaxElapsed == 2        \* the largest maxRequestElapsedTime, in ticks of the clock
MaxAttemptTicks == 2   \* the longest an HTTP attempt takes
MaxBackOffStep == 2    \* the longest interval NextBackOff returns
MaxSendEvents == 2     \* SpecRetry: the SendEvent calls of one behaviour
CancelMetrics == 1     \* SpecCancel: metrics passed in one behaviour
CancelEvents == 1      \* SpecCancel: events passed in one behaviour
CancelCalls == 1       \* SpecCancel: SendMetricsAsync calls of one behaviour
CancelPosts == 1       \* SpecCancel: batches of one behaviour
CancelMaps == 1        \* SpecCancel: maps sent to the worker in one behaviour
CancelCmds == 1        \* SpecCancel: process commands of one behaviour

\* ------------------------------------------------------------------------
\* Values
\* ------------------------------------------------------------------------
Nil == "nil"                              \* a nil channel
NilInstance == [isNil |-> TRUE, ID |-> "", Tags |-> {}]   \* (*Instance)(nil)
NoEntry == [hit |-> FALSE, instance |-> NilInstance]      \* Peek misses
UnknownSource == ""                       \* gostatsd.UnknownSource
IPs == {"10.0.0.1", "10.0.0.2", "10.0.0.3"}
TwoIPs == {"10.0.0.1", "10.0.0.2"}
Sources == IPs \cup {UnknownSource}

\* The errors of the datadog client
NoError == "nil"
ErrMarshal == "unable to marshal"
ErrPost == "error POSTing"
ErrCanceled == "context canceled"

\* The gostatsd.Instance the provider finds for an IP.
InstanceFor(ip) ==
  [isNil |-> FALSE,
   ID |-> CASE ip = "10.0.0.1" -> "host-a"
            [] ip = "10.0.0.2" -> "host-b"
            [] OTHER -> "host-c",
   Tags |-> {"env:prod"}]

\* What a lookup of ip delivers: nothing is known of 10.0.0.2 (a negative
\* lookup, a nil instance); the other IPs have an instance.
LookupResult(ip) == IF ip = "10.0.0.2" THEN NilInstance ELSE InstanceFor(ip)

VARIABLES
  \* --- context and collaborators of the CloudHandler
  ctxDone,            \* ctx.Done() is closed
  capture,            \* the downstream handler records what it is given
  endless,            \* the callers never run out of metrics and events
  metricsLeft,        \* otherwise: the metrics the callers have yet to pass
  eventsLeft,         \* otherwise: the events the callers have yet to pass
  cache,              \* CachedInstances cache: ip -> NoEntry or a cached result
  lookingUp,          \* IPs the provider received from ipSink, not yet answered
  infoOut,            \* InstanceInfo values the provider offers on infoSource
  handlerMaps,        \* capturingHandler.maps
  handlerE,           \* capturingHandler.e
  \* --- CloudHandler fields and Run's locals
  runPc,              \* "select" | "returned"
  toLookupC, toLookupIP, toLookupIPs,
  awaitingMetrics, awaitingEvents,
  statsMetricItemsQueued, statsMetricHostsQueued,
  statsEventItemsQueued, statsEventHostsQueued,
  statsCacheHit, statsCacheMiss,
  wg,                 \* sync.WaitGroup counter
  \* --- one caller of DispatchMetricMap (processMetrics)
  pmPc, pmMetrics, pmI, mmToDispatch, toHandle,
  \* --- one caller of DispatchEvent
  evPc, evE,
  \* --- goroutines started by handleInstanceInfo
  metricGos, eventGos,
  \* --- shutdown's WaitForEvents
  waitPc,
  \* --- history
  nextMetric, nextEvent,  \* ids given out so far
  evSource,               \* evSource[id]: the source event id was passed with
  drained,                \* the event lists handleInstanceInfo has drained
  peeks,                  \* calls of ch.cachedInstances.Peek so far
  lookupsSent             \* per IP: sends on ipSink since its last InstanceInfo

chVars == <<ctxDone, capture, endless, metricsLeft, eventsLeft, cache, lookingUp, infoOut, handlerMaps, handlerE,
            runPc, toLookupC, toLookupIP, toLookupIPs,
            awaitingMetrics, awaitingEvents,
            statsMetricItemsQueued, statsMetricHostsQueued,
            statsEventItemsQueued, statsEventHostsQueued, wg,
            pmPc, pmMetrics, pmI, mmToDispatch, toHandle, evPc, evE,
            metricGos, eventGos, waitPc,
            nextMetric, nextEvent, evSource, drained, lookupsSent,
            statsCacheHit, statsCacheMiss, peeks>>

VARIABLES
  \* --- one worker (aggregator shard) and the goroutines that feed it
  queueCap,           \* cap(w.metricMapQueue)
  metricMapQueue,     \* the maps buffered in w.metricMapQueue
  queueClosed,        \* close(w.metricMapQueue) was called
  wkPc,               \* "select" | "receiveMap" | "process" | "done" | "returned"
  wkCur,              \* work's locals mm and cmd: the map or the command it holds
  received,           \* the maps aggr.ReceiveMap was given, in order
  cmdWaiting,         \* process commands whose sender waits on processChan
  ran,                \* the commands whose f has run, with what f found
  doneCalls,          \* doneCalls[id]: how often cmd.done was called
  aggrOps,            \* the calls on w.aggr in progress, and their goroutine
  \* --- history
  nextMap, nextCmd,   \* ids given out so far
  placed              \* maps whose send on metricMapQueue has completed

wkVars == <<queueCap, metricMapQueue, queueClosed, wkPc, wkCur, received,
            cmdWaiting, ran, doneCalls, aggrOps, nextMap, nextCmd, placed>>

VARIABLES
  \* --- datadog.Client and the goroutines of SendMetricsAsync
  maxRequests,        \* NewClient's maxRequests
  metricsBufferSem,   \* the buffers in the channel d.metricsBufferSem
  posts,              \* the goroutines "go func() { select ... }" of the batches
  collectors,         \* the goroutines that gather the results and call cb
  callbacks,          \* the error slices the callbacks were given, by call
  batchesCreated, batchesDropped, batchesSent, seriesSent, batchesRetried,
  callsLeft,          \* the SendMetricsAsync calls yet to be made
  postsLeft           \* the batches those calls may yet produce

ddVars == <<maxRequests, metricsBufferSem, posts, collectors, callbacks,
            batchesCreated, batchesDropped, batchesSent, seriesSent,
            batchesRetried, callsLeft, postsLeft>>

VARIABLES
  \* --- one run of datadog.Client.processMetrics
  flPc,               \* "idle" | "counters" | "timers" | "gauges" | "sets" | "finish" | "done"
  metricsPerBatch,    \* d.metricsPerBatch
  disabledSubtypes,   \* d.disabledSubtypes, the disabled timer subtypes
  flMetrics,          \* the MetricMap, as the keys not yet walked of each kind
  flTs,               \* fl.ts.Series, the current batch
  flBatches           \* the batches handed to cb, in order

\* The backend registry (package backends)
VARIABLES
  initsLeft,          \* the InitBackend calls yet to be made
  initialised         \* the calls made: name, what the factory gave, the result

bkVars == <<initsLeft, initialised>>

\* datadog.Client: the retry budget, and one caller of SendEvent
VARIABLES
  maxRequestElapsedTime,  \* d.maxRequestElapsedTime, in ticks of the clock
  sendEvent           \* the SendEvent call in progress, or how the last one ended

seVars == <<maxRequestElapsedTime, sendEvent>>

\* Shutdown
VARIABLES
  focus,              \* the component whose goroutines are followed
  loops               \* Client.Run and CloudHandler.RunMetrics: "select" | "returned"

cxVars == <<focus, loops>>

flVars == <<flPc, metricsPerBatch, disabledSubtypes, flMetrics, flTs, flBatches>>

nonCH == <<wkVars, ddVars, flVars, bkVars, seVars, cxVars>>

vars == <<chVars, wkVars, ddVars, flVars, bkVars, seVars, cxVars>>

\* ------------------------------------------------------------------------
\* Helpers
\* ------------------------------------------------------------------------
RECURSIVE SumOver(_, _)
SumOver(S, f) ==
  IF S = {} THEN 0
  ELSE LET x == CHOOSE y \in S : TRUE IN f[x] + SumOver(S \ {x}, f)

Count(x, s) == Cardinality({i \in 1..Len(s) : s[i] = x})

\* A metric or an event, as far as the CloudHandler reads and writes it.
Item(id, src) == [id |-> id, Source |-> src, Tags |-> {}]
NoItem == Item(0, UnknownSource)

\* ------------------------------------------------------------------------
\* CloudHandler: pure parts
\* ------------------------------------------------------------------------
updateInplace_Always(obj, instance) ==
  [obj EXCEPT !.Tags = @ \cup {"looked-up"}, !.Source = instance.ID]

\* updateInplace: AddTagsSetSource when the instance is not nil.
updateInplace(obj, instance) ==
  IF ~instance.isNil
  THEN [obj EXCEPT !.Tags = @ \cup instance.Tags, !.Source = instance.ID]
  ELSE obj

\* getInstance: <<instance, cacheHit>>.
getInstance(ip) ==
  IF ip = UnknownSource THEN <<NilInstance, TRUE>>
  ELSE IF ~cache[ip].hit THEN <<NilInstance, FALSE>>
  ELSE <<cache[ip].instance, TRUE>>

getInstanceStats_Counted(ip) ==
  <<statsCacheHit + 1, statsCacheMiss, peeks + 1>>

\* getInstance: statsCacheHit, statsCacheMiss and the number of Peek calls
\* after it. They are followed where a specification observes what passes
\* (capture), and stay 0 elsewhere.
getInstanceStats(ip) ==
  IF ~capture \/ ip = UnknownSource THEN <<statsCacheHit, statsCacheMiss, peeks>>
  ELSE IF ~cache[ip].hit THEN <<statsCacheHit, statsCacheMiss + 1, peeks + 1>>
  ELSE <<statsCacheHit + 1, statsCacheMiss, peeks + 1>>

\* The downstream handler.
HandlerDispatchMetricMap(maps, mm) == IF capture THEN Append(maps, mm) ELSE maps
HandlerDispatchEvent(es, e) == IF capture THEN Append(es, e) ELSE es

\* (a variant that pops whenever the stack is not empty)
RunPop_Unguarded(C, IP, stack) ==
  IF Len(stack) > 0
  THEN [toLookupC |-> "ipSink",
        toLookupIP |-> stack[Len(stack)],
        toLookupIPs |-> SubSeq(stack, 1, Len(stack) - 1)]
  ELSE [toLookupC |-> C, toLookupIP |-> IP, toLookupIPs |-> stack]

\* Run's tail (the pop after every select), on the values the branch left.
RunPop(C, IP, stack) ==
  IF C = Nil /\ Len(stack) > 0
  THEN [toLookupC |-> "ipSink",
        toLookupIP |-> stack[Len(stack)],
        toLookupIPs |-> SubSeq(stack, 1, Len(stack) - 1)]
  ELSE [toLookupC |-> C, toLookupIP |-> IP, toLookupIPs |-> stack]

\* (a variant that looks at the metric queue alone)
FirstMetricForIP_QueueOnly(queue, events) == Len(queue) = 0

\* handleIncomingMetrics: is this the first item queued for the IP?
FirstMetricForIP(queue, events) == Len(queue) = 0 /\ Len(events) = 0

\* (a variant that looks at the event queue alone)
FirstEventForIP_QueueOnly(queue, metrics) == Len(queue) = 0

\* handleIncomingEvent: is this the first item queued for the IP?
FirstEventForIP(queue, metrics) == Len(queue) = 0 /\ Len(metrics) = 0

RECURSIVE handleIncomingMetricsLoop(_, _, _)
handleIncomingMetricsLoop(metrics, i, st) ==
  IF i > Len(metrics) THEN st
  ELSE LET m == metrics[i]
           queue == st.awaitingMetrics[m.Source]
           first == FirstMetricForIP(queue, awaitingEvents[m.Source])
       IN handleIncomingMetricsLoop(metrics, i + 1,
            [awaitingMetrics |-> [st.awaitingMetrics EXCEPT ![m.Source] = Append(queue, m)],
             toLookupIPs |-> IF first THEN Append(st.toLookupIPs, m.Source)
                             ELSE st.toLookupIPs,
             statsMetricHostsQueued |-> IF first THEN st.statsMetricHostsQueued + 1
                                        ELSE st.statsMetricHostsQueued])

handleIncomingMetrics(metrics) ==
  LET st == handleIncomingMetricsLoop(metrics, 1,
              [awaitingMetrics |-> awaitingMetrics,
               toLookupIPs |-> toLookupIPs,
               statsMetricHostsQueued |-> statsMetricHostsQueued])
  IN [awaitingMetrics |-> st.awaitingMetrics,
      toLookupIPs |-> st.toLookupIPs,
      statsMetricHostsQueued |-> st.statsMetricHostsQueued,
      statsMetricItemsQueued |-> statsMetricItemsQueued + Len(metrics)]

handleIncomingEvent(e) ==
  LET queue == awaitingEvents[e.Source]
      first == FirstEventForIP(queue, awaitingMetrics[e.Source])
  IN [awaitingEvents |-> [awaitingEvents EXCEPT ![e.Source] = Append(queue, e)],
      toLookupIPs |-> IF first THEN Append(toLookupIPs, e.Source) ELSE toLookupIPs,
      statsEventHostsQueued |-> IF first THEN statsEventHostsQueued + 1
                                ELSE statsEventHostsQueued,
      statsEventItemsQueued |-> statsEventItemsQueued + 1]

\* A free goroutine id.
FreshGid(gos) == CHOOSE n \in 1..(Cardinality(gos) + 1) : \A g \in gos : g.gid # n


\* (a variant that leaves the entry in the map)
delete_Skipped(awaiting, ip) == awaiting

\* delete(ch.awaitingMetrics, info.IP) and delete(ch.awaitingEvents, info.IP):
\* a key that is absent reads as the empty slice.
delete(awaiting, ip) == [awaiting EXCEPT ![ip] = <<>>]

\* handleInstanceInfo: the fields it writes and the goroutines it starts.
\* The four stats fields are uint64. They are held here as integers, a uint64
\* u being the integer nearest to zero that is congruent to u modulo 2^64: a
\* value below zero is a counter that wrapped around (-1 is 2^64 - 1).
handleInstanceInfo(info) ==
  LET metrics == awaitingMetrics[info.IP]
      events == awaitingEvents[info.IP]
      hasM == Len(metrics) > 0
      hasE == Len(events) > 0
  IN [awaitingMetrics |-> IF hasM THEN delete(awaitingMetrics, info.IP)
                          ELSE awaitingMetrics,
      statsMetricItemsQueued |-> IF hasM THEN statsMetricItemsQueued - Len(metrics)
                                 ELSE statsMetricItemsQueued,
      statsMetricHostsQueued |-> IF hasM THEN statsMetricHostsQueued - 1
                                 ELSE statsMetricHostsQueued,
      metricGos |-> IF hasM
                    THEN metricGos \cup {[gid |-> FreshGid(metricGos),
                                          instance |-> info.Instance,
                                          metrics |-> metrics]}
                    ELSE metricGos,
      awaitingEvents |-> IF hasE THEN delete(awaitingEvents, info.IP)
                         ELSE awaitingEvents,
      statsEventItemsQueued |-> IF hasE THEN statsEventItemsQueued - Len(events)
                                ELSE statsEventItemsQueued,
      statsEventHostsQueued |-> IF hasE THEN statsEventHostsQueued - 1
                                ELSE statsEventHostsQueued,
      eventGos |-> IF hasE
                   THEN eventGos \cup {[gid |-> FreshGid(eventGos),
                                        instance |-> info.Instance,
                                        events |-> events,
                                        i |-> 1,
                                        dispatched |-> 0]}
                   ELSE eventGos]

\* ------------------------------------------------------------------------
\* Initial state: NewCloudHandler, a cold cache, nothing in flight
\* ------------------------------------------------------------------------
CHInit ==
  /\ ctxDone = FALSE
  /\ cache = [ip \in IPs |-> NoEntry]
  /\ lookingUp = {}
  /\ infoOut = {}
  /\ handlerMaps = <<>>
  /\ handlerE = <<>>
  /\ runPc = "select"
  /\ toLookupC = Nil
  /\ toLookupIP = UnknownSource
  /\ toLookupIPs = <<>>
  /\ awaitingMetrics = [s \in Sources |-> <<>>]
  /\ awaitingEvents = [s \in Sources |-> <<>>]
  /\ statsMetricItemsQueued = 0
  /\ statsMetricHostsQueued = 0
  /\ statsEventItemsQueued = 0
  /\ statsEventHostsQueued = 0
  /\ wg = 0
  /\ pmPc = "idle"
  /\ pmMetrics = <<>>
  /\ pmI = 1
  /\ mmToDispatch = <<>>
  /\ toHandle = <<>>
  /\ evPc = "idle"
  /\ evE = NoItem
  /\ metricGos = {}
  /\ eventGos = {}
  /\ waitPc = "idle"
  /\ nextMetric = 0
  /\ nextEvent = 0
  /\ evSource = <<>>
  /\ drained = {}
  /\ lookupsSent = [ip \in IPs |-> 0]
  /\ statsCacheHit = 0
  /\ statsCacheMiss = 0
  /\ peeks = 0

\* ------------------------------------------------------------------------
\* Initial states of the other components
\* ------------------------------------------------------------------------
\* No command, and work's locals while it waits in its select.
NoCmd == [id |-> 0, after |-> 0]
Holding == [mm |-> 0, cmd |-> NoCmd]

\* A worker with a queue of capacity c, as the dispatcher makes it.
WkInit(c) ==
  /\ queueCap = c
  /\ metricMapQueue = <<>>
  /\ queueClosed = FALSE
  /\ wkPc = "select"
  /\ wkCur = Holding
  /\ received = <<>>
  /\ cmdWaiting = {}
  /\ ran = {}
  /\ doneCalls = <<>>
  /\ aggrOps = {}
  /\ nextMap = 0
  /\ nextCmd = 0
  /\ placed = 0

\* NewClient(..., maxRequests = n, ...): n buffers are put in the channel.
DDInit(n, calls, batches) ==
  /\ maxRequests = n
  /\ metricsBufferSem = [i \in 1..n |-> i]
  /\ posts = {}
  /\ collectors = {}
  /\ callbacks = {}
  /\ batchesCreated = 0
  /\ batchesDropped = 0
  /\ batchesSent = 0
  /\ seriesSent = 0
  /\ batchesRetried = 0
  /\ callsLeft = calls
  /\ postsLeft = batches

FlInit ==
  /\ flPc = "idle"
  /\ metricsPerBatch = 1
  /\ disabledSubtypes = {}
  /\ flMetrics = [Counters |-> 0, Timers |-> <<>>, Gauges |-> 0, Sets |-> 0]
  /\ flTs = <<>>
  /\ flBatches = <<>>

\* NewClient(..., maxRequestElapsedTime, ...) with one of the budgets given, and
\* calls calls of SendEvent to come.
SeInit(budgets, calls) ==
  /\ maxRequestElapsedTime \in budgets
  /\ sendEvent = [pc |-> "idle", err |-> NoError, elapsed |-> 0, attempt |-> 0,
                  next |-> 0, attempts |-> 0, left |-> calls]

\* The loops of Client.Run and CloudHandler.RunMetrics have been started.
CxInit(component) ==
  /\ focus = component
  /\ loops = [clientRun |-> "select", runMetrics |-> "select"]

\* The registry, with n calls of InitBackend to come.
BkInit(n) ==
  /\ initsLeft = n
  /\ initialised = <<>>

\* ------------------------------------------------------------------------
\* CloudHandler.Run: one action per select branch, each with the pop after it
\* ------------------------------------------------------------------------
runLocals == <<toLookupC, toLookupIP, toLookupIPs>>
statsVars == <<statsMetricItemsQueued, statsMetricHostsQueued,
               statsEventItemsQueued, statsEventHostsQueued>>
pmVars == <<pmPc, pmMetrics, pmI, mmToDispatch, toHandle>>
evVars == <<evPc, evE>>
envVars == <<ctxDone, capture, endless, cache>>
budgetVars == <<metricsLeft, eventsLeft>>
histVars == <<nextMetric, nextEvent, evSource, drained, budgetVars>>
handlerVars == <<handlerMaps, handlerE>>
cacheStats == <<statsCacheHit, statsCacheMiss, peeks>>

SetCacheStats(st) ==
  /\ statsCacheHit' = st[1]
  /\ statsCacheMiss' = st[2]
  /\ peeks' = st[3]

SetRunLocals(r) ==
  /\ toLookupC' = r.toLookupC
  /\ toLookupIP' = r.toLookupIP
  /\ toLookupIPs' = r.toLookupIPs

\* case <-ctx.Done(): return
RunCtxDone ==
  /\ runPc = "select"
  /\ ctxDone
  /\ runPc' = "returned"
  /\ UNCHANGED <<nonCH, cacheStats, envVars, lookingUp, infoOut, handlerVars, runLocals,
                 awaitingMetrics, awaitingEvents, statsVars, wg, pmVars, evVars,
                 metricGos, eventGos, waitPc, histVars, lookupsSent>>

\* case toLookupC <- toLookupIP: the provider receives the IP from ipSink
RunSendLookup ==
  /\ runPc = "select"
  /\ toLookupC = "ipSink"
  /\ lookingUp' = lookingUp \cup {toLookupIP}
  /\ lookupsSent' = [lookupsSent EXCEPT ![toLookupIP] = @ + 1]
  /\ SetRunLocals(RunPop(Nil, UnknownSource, toLookupIPs))
  /\ UNCHANGED <<nonCH, cacheStats, envVars, infoOut, handlerVars, runPc,
                 awaitingMetrics, awaitingEvents, statsVars, wg, pmVars, evVars,
                 metricGos, eventGos, waitPc, histVars>>

\* case info := <-infoSource: ch.handleInstanceInfo(ctx, info)
RunRecvInfo(info) ==
  /\ runPc = "select"
  /\ info \in infoOut
  /\ infoOut' = infoOut \ {info}
  /\ LET r == handleInstanceInfo(info)
     IN /\ awaitingMetrics' = r.awaitingMetrics
        /\ statsMetricItemsQueued' = r.statsMetricItemsQueued
        /\ statsMetricHostsQueued' = r.statsMetricHostsQueued
        /\ metricGos' = r.metricGos
        /\ awaitingEvents' = r.awaitingEvents
        /\ statsEventItemsQueued' = r.statsEventItemsQueued
        /\ statsEventHostsQueued' = r.statsEventHostsQueued
        /\ eventGos' = r.eventGos
  /\ lookupsSent' = [lookupsSent EXCEPT ![info.IP] = 0]
  /\ drained' = IF capture /\ Len(awaitingEvents[info.IP]) > 0
                THEN drained \cup {awaitingEvents[info.IP]}
                ELSE drained
  /\ SetRunLocals(RunPop(toLookupC, toLookupIP, toLookupIPs))
  /\ UNCHANGED <<nonCH, cacheStats, envVars, lookingUp, handlerVars, runPc, wg, pmVars, evVars,
                 waitPc, nextMetric, nextEvent, evSource, budgetVars>>

\* (a variant of the select that takes metrics only while no IP is on offer)
IncomingMetricsReady_SlotFree == pmPc = "send" /\ toLookupC = Nil

\* "case metrics := <-ch.incomingMetrics" can go: a sender is waiting
IncomingMetricsReady == pmPc = "send"

\* case metrics := <-ch.incomingMetrics: ch.handleIncomingMetrics(metrics)
\* (the rendezvous with processMetrics' send of toHandle)
RunRecvMetrics ==
  /\ runPc = "select"
  /\ IncomingMetricsReady
  /\ LET r == handleIncomingMetrics(toHandle)
     IN /\ awaitingMetrics' = r.awaitingMetrics
        /\ statsMetricHostsQueued' = r.statsMetricHostsQueued
        /\ statsMetricItemsQueued' = r.statsMetricItemsQueued
        /\ SetRunLocals(RunPop(toLookupC, toLookupIP, r.toLookupIPs))
  /\ pmPc' = "idle"
  /\ pmMetrics' = <<>>
  /\ pmI' = 1
  /\ mmToDispatch' = <<>>
  /\ toHandle' = <<>>
  /\ UNCHANGED <<nonCH, cacheStats, envVars, lookingUp, infoOut, handlerVars, runPc,
                 awaitingEvents, statsEventItemsQueued, statsEventHostsQueued,
                 wg, evVars, metricGos, eventGos, waitPc, histVars, lookupsSent>>

\* case e := <-ch.incomingEvents: ch.handleIncomingEvent(e)
\* (the rendezvous with DispatchEvent's send)
RunRecvEvent ==
  /\ runPc = "select"
  /\ evPc = "send"
  /\ LET r == handleIncomingEvent(evE)
     IN /\ awaitingEvents' = r.awaitingEvents
        /\ statsEventHostsQueued' = r.statsEventHostsQueued
        /\ statsEventItemsQueued' = r.statsEventItemsQueued
        /\ SetRunLocals(RunPop(toLookupC, toLookupIP, r.toLookupIPs))
  /\ evPc' = "idle"
  /\ evE' = NoItem
  /\ UNCHANGED <<nonCH, cacheStats, envVars, lookingUp, infoOut, handlerVars, runPc,
                 awaitingMetrics, statsMetricItemsQueued, statsMetricHostsQueued,
                 wg, pmVars, metricGos, eventGos, waitPc, histVars, lookupsSent>>

\* ------------------------------------------------------------------------
\* processMetrics (the body of DispatchMetricMap), one caller
\* ------------------------------------------------------------------------
\* Items in the CloudHandler's hands: with a caller, queued, or with a
\* dispatch goroutine.
LiveMetrics ==
  Len(pmMetrics)
  + SumOver(IPs, [ip \in IPs |-> Len(awaitingMetrics[ip])])
  + SumOver(metricGos, [g \in metricGos |-> Len(g.metrics)])

LiveEvents ==
  (IF evPc = "send" THEN 1 ELSE 0)
  + SumOver(IPs, [ip \in IPs |-> Len(awaitingEvents[ip])])
  + SumOver(eventGos, [g \in eventGos |-> Len(g.events)])

\* The batches a caller may pass, as the sources of their metrics. An item
\* has an id of its own when the downstream handler captures; otherwise the
\* items of one source are told apart by nothing, and have id 0.
MetricBatches(srcs) ==
  UNION {[1..k -> srcs] : k \in 1..MaxBatch}

CanPassMetrics(k) ==
  IF endless THEN LiveMetrics + LiveEvents + k <= MaxLive
  ELSE k <= metricsLeft

CanPassEvent ==
  IF endless THEN LiveMetrics + LiveEvents + 1 <= MaxLive
  ELSE 1 <= eventsLeft

\* DispatchMetricMap(ctx, mm): processMetrics starts on mm.AsMetrics()
PMCall(srcSeq) ==
  /\ pmPc = "idle"
  /\ CanPassMetrics(Len(srcSeq))
  /\ pmMetrics' = [i \in 1..Len(srcSeq) |->
                     Item(IF capture THEN nextMetric + i ELSE 0, srcSeq[i])]
  /\ nextMetric' = IF capture THEN nextMetric + Len(srcSeq) ELSE nextMetric
  /\ metricsLeft' = IF endless THEN metricsLeft ELSE metricsLeft - Len(srcSeq)
  /\ pmI' = 1
  /\ mmToDispatch' = <<>>
  /\ toHandle' = <<>>
  /\ pmPc' = "loop"
  /\ UNCHANGED <<nonCH, cacheStats, envVars, lookingUp, infoOut, handlerVars, runPc, runLocals,
                 awaitingMetrics, awaitingEvents, statsVars, wg, evVars,
                 metricGos, eventGos, waitPc, nextEvent, evSource, drained,
                 eventsLeft, lookupsSent>>

\* one iteration of "for _, m := range metrics"
PMLoop ==
  /\ pmPc = "loop"
  /\ LET m == pmMetrics[pmI]
         r == getInstance(m.Source)
     IN IF r[2]
        THEN /\ mmToDispatch' = Append(mmToDispatch, updateInplace(m, r[1]))
             /\ toHandle' = toHandle
        ELSE /\ toHandle' = Append(toHandle, m)
             /\ mmToDispatch' = mmToDispatch
  /\ SetCacheStats(getInstanceStats(pmMetrics[pmI].Source))
  /\ pmI' = pmI + 1
  /\ pmPc' = IF pmI = Len(pmMetrics) THEN "dispatch" ELSE "loop"
  /\ UNCHANGED <<nonCH, envVars, lookingUp, infoOut, handlerVars, runPc, runLocals,
                 awaitingMetrics, awaitingEvents, statsVars, wg, pmMetrics, evVars,
                 metricGos, eventGos, waitPc, histVars, lookupsSent>>

\* after the loop: dispatch the cache hits, then go on to send the misses
PMDispatch ==
  /\ pmPc = "dispatch"
  /\ handlerMaps' = IF Len(mmToDispatch) > 0
                    THEN HandlerDispatchMetricMap(handlerMaps, mmToDispatch)
                    ELSE handlerMaps
  /\ IF Len(toHandle) > 0
     THEN /\ pmPc' = "send"
          /\ UNCHANGED <<pmMetrics, pmI, mmToDispatch, toHandle>>
     ELSE /\ pmPc' = "idle"
          /\ pmMetrics' = <<>>
          /\ pmI' = 1
          /\ mmToDispatch' = <<>>
          /\ toHandle' = <<>>
  /\ UNCHANGED <<nonCH, cacheStats, envVars, lookingUp, infoOut, handlerE, runPc, runLocals,
                 awaitingMetrics, awaitingEvents, statsVars, wg, evVars,
                 metricGos, eventGos, waitPc, histVars, lookupsSent>>

\* The select has no ctx.Done() case: the caller keeps waiting for Run.
PMCtxDone_NotWatched ==
  /\ pmPc = "send"
  /\ ctxDone
  /\ UNCHANGED vars

\* select { case <-ctx.Done(): ... }: the send is abandoned
PMCtxDone ==
  /\ pmPc = "send"
  /\ ctxDone
  /\ pmPc' = "idle"
  /\ pmMetrics' = <<>>
  /\ pmI' = 1
  /\ mmToDispatch' = <<>>
  /\ toHandle' = <<>>
  /\ UNCHANGED <<nonCH, cacheStats, envVars, lookingUp, infoOut, handlerVars, runPc, runLocals,
                 awaitingMetrics, awaitingEvents, statsVars, wg, evVars,
                 metricGos, eventGos, waitPc, histVars, lookupsSent>>

\* ------------------------------------------------------------------------
\* DispatchEvent, one caller
\* ------------------------------------------------------------------------
DispatchEventCall(src) ==
  /\ evPc = "idle"
  /\ CanPassEvent
  /\ nextEvent' = IF capture THEN nextEvent + 1 ELSE nextEvent
  /\ eventsLeft' = IF endless THEN eventsLeft ELSE eventsLeft - 1
  /\ evSource' = IF capture THEN Append(evSource, src) ELSE evSource
  /\ SetCacheStats(getInstanceStats(src))
  /\ LET e == Item(IF capture THEN nextEvent + 1 ELSE 0, src)
         r == getInstance(src)
     IN IF r[2]
        THEN \* cache hit: ch.handler.DispatchEvent(ctx, e); return
             /\ handlerE' = HandlerDispatchEvent(handlerE, updateInplace(e, r[1]))
             /\ UNCHANGED <<wg, evVars>>
        ELSE \* ch.wg.Add(1), then the select
             /\ wg' = wg + 1
             /\ evPc' = "send"
             /\ evE' = e
             /\ handlerE' = handlerE
  /\ UNCHANGED <<nonCH, envVars, lookingUp, infoOut, handlerMaps, runPc, runLocals,
                 awaitingMetrics, awaitingEvents, statsVars, pmVars,
                 metricGos, eventGos, waitPc, nextMetric, metricsLeft, drained,
                 lookupsSent>>

\* select { case <-ctx.Done(): ch.wg.Done() }
DispatchEventCtxDone ==
  /\ evPc = "send"
  /\ ctxDone
  /\ wg' = wg - 1
  /\ evPc' = "idle"
  /\ evE' = NoItem
  /\ UNCHANGED <<nonCH, cacheStats, envVars, lookingUp, infoOut, handlerVars, runPc, runLocals,
                 awaitingMetrics, awaitingEvents, statsVars, pmVars,
                 metricGos, eventGos, waitPc, histVars, lookupsSent>>

\* ------------------------------------------------------------------------
\* The goroutines handleInstanceInfo starts
\* ------------------------------------------------------------------------
RECURSIVE UpdateAll(_, _)
UpdateAll(items, instance) ==
  IF items = <<>> THEN <<>>
  ELSE <<updateInplace(Head(items), instance)>> \o UpdateAll(Tail(items), instance)

\* updateAndDispatchMetrics
UpdateAndDispatchMetrics(g) ==
  /\ g \in metricGos
  /\ handlerMaps' = HandlerDispatchMetricMap(handlerMaps, UpdateAll(g.metrics, g.instance))
  /\ metricGos' = metricGos \ {g}
  /\ UNCHANGED <<nonCH, cacheStats, envVars, lookingUp, infoOut, handlerE, runPc, runLocals,
                 awaitingMetrics, awaitingEvents, statsVars, wg, pmVars, evVars,
                 eventGos, waitPc, histVars, lookupsSent>>

\* (a variant that calls ch.wg.Done() once for the whole list)
WgAfterDispatch_DoneOnce(counter, dispatched) == counter - 1

\* The counter after updateAndDispatchEvents' deferred ch.wg.Add(-dispatched).
WgAfterDispatch(counter, dispatched) == counter - dispatched

\* (a variant that walks the events from the last to the first)
RangeEvent_Reversed(g) == g.events[Len(g.events) + 1 - g.i]

\* updateAndDispatchEvents: the event "for _, e := range events" is at
RangeEvent(g) == g.events[g.i]

\* updateAndDispatchEvents: one iteration of the loop
UpdateAndDispatchEvent(g) ==
  /\ g \in eventGos
  /\ g.i <= Len(g.events)
  /\ handlerE' = HandlerDispatchEvent(handlerE, updateInplace(RangeEvent(g), g.instance))
  /\ eventGos' = (eventGos \ {g})
                   \cup {[g EXCEPT !.i = @ + 1, !.dispatched = @ + 1]}
  /\ UNCHANGED <<nonCH, cacheStats, envVars, lookingUp, infoOut, handlerMaps, runPc, runLocals,
                 awaitingMetrics, awaitingEvents, statsVars, wg, pmVars, evVars,
                 metricGos, waitPc, histVars, lookupsSent>>

\* updateAndDispatchEvents: the loop is over, the deferred function runs
UpdateAndDispatchEventsReturn(g) ==
  /\ g \in eventGos
  /\ g.i > Len(g.events)
  /\ wg' = WgAfterDispatch(wg, g.dispatched)
  /\ eventGos' = eventGos \ {g}
  /\ UNCHANGED <<nonCH, cacheStats, envVars, lookingUp, infoOut, handlerVars, runPc, runLocals,
                 awaitingMetrics, awaitingEvents, statsVars, pmVars, evVars,
                 metricGos, waitPc, histVars, lookupsSent>>

\* ------------------------------------------------------------------------
\* The CachedInstances collaborator, the context and shutdown
\* ------------------------------------------------------------------------
\* A lookup ends: the result is cached and offered on infoSource.
ProviderLookup(ip) ==
  /\ ip \in lookingUp
  /\ lookingUp' = lookingUp \ {ip}
  /\ cache' = [cache EXCEPT ![ip] = [hit |-> TRUE, instance |-> LookupResult(ip)]]
  /\ infoOut' = infoOut \cup {[IP |-> ip, Instance |-> LookupResult(ip)]}
  /\ UNCHANGED <<nonCH, cacheStats, ctxDone, capture, endless, handlerVars, runPc, runLocals,
                 awaitingMetrics, awaitingEvents, statsVars, wg, pmVars, evVars,
                 metricGos, eventGos, waitPc, histVars, lookupsSent>>

\* A cache entry expires.
CacheExpire(ip) ==
  /\ cache[ip].hit
  /\ cache' = [cache EXCEPT ![ip] = NoEntry]
  /\ UNCHANGED <<nonCH, cacheStats, ctxDone, capture, endless, lookingUp, infoOut, handlerVars, runPc, runLocals,
                 awaitingMetrics, awaitingEvents, statsVars, wg, pmVars, evVars,
                 metricGos, eventGos, waitPc, histVars, lookupsSent>>

\* Shutdown cancels the root context ...
CtxCancel ==
  /\ ~ctxDone
  /\ ctxDone' = TRUE
  /\ UNCHANGED <<nonCH, cacheStats, capture, endless, cache, lookingUp, infoOut, handlerVars, runPc, runLocals,
                 awaitingMetrics, awaitingEvents, statsVars, wg, pmVars, evVars,
                 metricGos, eventGos, waitPc, histVars, lookupsSent>>

\* ... and then calls WaitForEvents: ch.wg.Wait()
WaitForEventsCall ==
  /\ ctxDone
  /\ waitPc = "idle"
  /\ waitPc' = "waiting"
  /\ UNCHANGED <<nonCH, cacheStats, envVars, lookingUp, infoOut, handlerVars, runPc, runLocals,
                 awaitingMetrics, awaitingEvents, statsVars, wg, pmVars, evVars,
                 metricGos, eventGos, histVars, lookupsSent>>

WaitForEventsReturn ==
  /\ waitPc = "waiting"
  /\ wg = 0
  /\ waitPc' = "returned"
  /\ UNCHANGED <<nonCH, cacheStats, envVars, lookingUp, infoOut, handlerVars, runPc, runLocals,
                 awaitingMetrics, awaitingEvents, statsVars, wg, pmVars, evVars,
                 metricGos, eventGos, histVars, lookupsSent>>

\* ------------------------------------------------------------------------
\* Specifications of the CloudHandler
\* ------------------------------------------------------------------------
CallerSources == TwoIPs \cup {UnknownSource}

\* Lookup coordination: metrics and events mixed, no shutdown.
InitLookup ==
  /\ CHInit
  /\ WkInit(0)
  /\ DDInit(0, 0, 0)
  /\ FlInit
  /\ BkInit(0)
  /\ SeInit({MaxElapsed}, 0)
  /\ CxInit("CloudHandler")
  /\ capture = FALSE
  /\ endless = FALSE
  /\ metricsLeft = LookupMetrics
  /\ eventsLeft = LookupEvents

NextLookup ==
  \/ RunSendLookup
  \/ \E info \in infoOut : RunRecvInfo(info)
  \/ RunRecvMetrics
  \/ RunRecvEvent
  \/ \E b \in MetricBatches(CallerSources) : PMCall(b)
  \/ PMLoop
  \/ PMDispatch
  \/ \E src \in CallerSources : DispatchEventCall(src)
  \/ \E g \in metricGos : UpdateAndDispatchMetrics(g)
  \/ \E g \in eventGos : UpdateAndDispatchEvent(g)
  \/ \E g \in eventGos : UpdateAndDispatchEventsReturn(g)
  \/ \E ip \in IPs : ProviderLookup(ip)
  \/ \E ip \in IPs : CacheExpire(ip)

SpecLookup == InitLookup /\ [][NextLookup]_vars

\* Events and shutdown: the WaitGroup, cancellation, WaitForEvents.
NextShutdown ==
  \/ RunCtxDone
  \/ RunSendLookup
  \/ \E info \in infoOut : RunRecvInfo(info)
  \/ RunRecvEvent
  \/ \E src \in CallerSources : DispatchEventCall(src)
  \/ DispatchEventCtxDone
  \/ \E g \in eventGos : UpdateAndDispatchEvent(g)
  \/ \E g \in eventGos : UpdateAndDispatchEventsReturn(g)
  \/ \E ip \in IPs : ProviderLookup(ip)
  \/ \E ip \in IPs : CacheExpire(ip)
  \/ CtxCancel
  \/ WaitForEventsCall
  \/ WaitForEventsReturn

InitShutdown ==
  /\ CHInit
  /\ WkInit(0)
  /\ DDInit(0, 0, 0)
  /\ FlInit
  /\ BkInit(0)
  /\ SeInit({MaxElapsed}, 0)
  /\ CxInit("CloudHandler")
  /\ capture = FALSE
  /\ endless = FALSE
  /\ metricsLeft = 0
  /\ eventsLeft = ShutdownEvents

SpecShutdown == InitShutdown /\ [][NextShutdown]_vars

\* Events through to a capturing downstream handler.
InitEvents ==
  /\ CHInit
  /\ WkInit(0)
  /\ DDInit(0, 0, 0)
  /\ FlInit
  /\ BkInit(0)
  /\ SeInit({MaxElapsed}, 0)
  /\ CxInit("CloudHandler")
  /\ capture = TRUE
  /\ endless = FALSE
  /\ metricsLeft = 0
  /\ eventsLeft = CapturedEvents

NextEvents ==
  \/ RunSendLookup
  \/ \E info \in infoOut : RunRecvInfo(info)
  \/ RunRecvEvent
  \/ \E src \in CallerSources : DispatchEventCall(src)
  \/ \E g \in eventGos : UpdateAndDispatchEvent(g)
  \/ \E g \in eventGos : UpdateAndDispatchEventsReturn(g)
  \/ \E ip \in IPs : ProviderLookup(ip)
  \/ \E ip \in IPs : CacheExpire(ip)

SpecEvents == InitEvents /\ [][NextEvents]_vars

\* Metrics and events through to a capturing downstream handler, with the
\* cache counters followed.
InitEnrich ==
  /\ CHInit
  /\ WkInit(0)
  /\ DDInit(0, 0, 0)
  /\ FlInit
  /\ BkInit(0)
  /\ SeInit({MaxElapsed}, 0)
  /\ CxInit("CloudHandler")
  /\ capture = TRUE
  /\ endless = FALSE
  /\ metricsLeft = EnrichMetrics
  /\ eventsLeft = EnrichEvents

NextEnrich ==
  \/ RunSendLookup
  \/ \E info \in infoOut : RunRecvInfo(info)
  \/ RunRecvMetrics
  \/ RunRecvEvent
  \/ \E b \in MetricBatches(CallerSources) : PMCall(b)
  \/ PMLoop
  \/ PMDispatch
  \/ \E src \in CallerSources : DispatchEventCall(src)
  \/ \E g \in metricGos : UpdateAndDispatchMetrics(g)
  \/ \E g \in eventGos : UpdateAndDispatchEvent(g)
  \/ \E g \in eventGos : UpdateAndDispatchEventsReturn(g)
  \/ \E ip \in IPs : ProviderLookup(ip)
  \/ \E ip \in IPs : CacheExpire(ip)

SpecEnrich == InitEnrich /\ [][NextEnrich]_vars

\* An endless stream of metrics for three IPs, under fair scheduling: every
\* select branch of Run that is ready again and again is taken (Go picks among
\* the ready cases at random), the provider receives every IP on offer and
\* answers every lookup, and every goroutine that can take a step does.
InitLive ==
  /\ CHInit
  /\ WkInit(0)
  /\ DDInit(0, 0, 0)
  /\ FlInit
  /\ BkInit(0)
  /\ SeInit({MaxElapsed}, 0)
  /\ CxInit("CloudHandler")
  /\ capture = FALSE
  /\ endless = TRUE
  /\ metricsLeft = 0
  /\ eventsLeft = 0

NextLive ==
  \/ RunSendLookup
  \/ \E info \in infoOut : RunRecvInfo(info)
  \/ RunRecvMetrics
  \/ \E b \in MetricBatches(IPs) : PMCall(b)
  \/ PMLoop
  \/ PMDispatch
  \/ \E g \in metricGos : UpdateAndDispatchMetrics(g)
  \/ \E ip \in IPs : ProviderLookup(ip)
  \/ \E ip \in IPs : CacheExpire(ip)

FairLive ==
  /\ SF_vars(RunSendLookup)
  /\ SF_vars(RunRecvMetrics)
  /\ \A ip \in IPs : SF_vars(RunRecvInfo([IP |-> ip, Instance |-> LookupResult(ip)]))
  /\ \A ip \in IPs : WF_vars(ProviderLookup(ip))
  /\ WF_vars(PMLoop)
  /\ WF_vars(PMDispatch)
  /\ WF_vars(\E g \in metricGos : UpdateAndDispatchMetrics(g))

SpecLive == InitLive /\ [][NextLive]_vars /\ FairLive

\* ------------------------------------------------------------------------
\* Properties of the lookup coordination (SpecLookup)
\* ------------------------------------------------------------------------
Pending(ip) == Len(awaitingMetrics[ip]) + Len(awaitingEvents[ip]) > 0
PendingIPs == {ip \in IPs : Pending(ip)}
OnOffer(ip) == toLookupC = "ipSink" /\ toLookupIP = ip

\* C1: single-flight stack. For any IP, at most one entry for it is on
\* toLookupIPs, in every reachable state of Run, the provider delivering one
\* InstanceInfo for an IP only after it received that IP from ipSink.
C1_SingleFlight == \A ip \in IPs : Count(ip, toLookupIPs) <= 1

\* C1 witness: an IP waits on the stack while a second item for it has arrived.
C1_Witness ==
  \E ip \in IPs :
    /\ Count(ip, toLookupIPs) = 1
    /\ Len(awaitingMetrics[ip]) + Len(awaitingEvents[ip]) >= 2

\* C2: exactly one outstanding lookup per IP. While items are pending for an
\* IP, the IP is either still waiting on the stack, or on offer in the send
\* slot, or has been sent on ipSink once, and never more than one of these;
\* an IP with nothing pending has no lookup outstanding. So from the first
\* cache-missing item to the handling of the InstanceInfo the IP is sent once.
C2_OneLookupPerIP ==
  \A ip \in IPs :
    /\ lookupsSent[ip] <= 1
    /\ Count(ip, toLookupIPs) + (IF OnOffer(ip) THEN 1 ELSE 0) + lookupsSent[ip]
         = (IF Pending(ip) THEN 1 ELSE 0)

\* C2 witness: an IP was sent once and both a metric and an event wait for it.
C2_Witness ==
  \E ip \in IPs :
    /\ lookupsSent[ip] = 1
    /\ Len(awaitingMetrics[ip]) >= 1
    /\ Len(awaitingEvents[ip]) >= 1

\* C9 as claimed: while an IP is on offer on ipSink and the provider does not
\* receive it, Run takes no new IP: toLookupIPs does not grow.
C9_StopsAcceptingNewIPs ==
  [][toLookupC = "ipSink" => Len(toLookupIPs') <= Len(toLookupIPs)]_vars

\* C9 as amended: a provider that does not receive from ipSink exerts no
\* backpressure. While an IP is on offer, Run still takes the metrics and
\* events its callers hand over, and every IP that was not yet pending is
\* pushed on toLookupIPs; the stack is bounded by the number of distinct
\* pending IPs only (the one on offer is not on it).
C9_NoBackpressure ==
  toLookupC = "ipSink" =>
    /\ (runPc = "select" /\ pmPc = "send") => ENABLED RunRecvMetrics
    /\ (runPc = "select" /\ evPc = "send") => ENABLED RunRecvEvent
    /\ Len(toLookupIPs) <= Cardinality(PendingIPs) - 1

\* C9 witness: the provider has received nothing, one IP is on offer and Run
\* has taken another IP meanwhile.
C9_Witness ==
  /\ toLookupC = "ipSink"
  /\ Len(toLookupIPs) >= 1
  /\ \A ip \in IPs : lookupsSent[ip] = 0
  /\ lookingUp = {}

\* ------------------------------------------------------------------------
\* Properties of events and shutdown (SpecShutdown)
\* ------------------------------------------------------------------------
EventsInHandOff == IF evPc = "send" THEN 1 ELSE 0
EventsQueued == SumOver(IPs, [ip \in IPs |-> Len(awaitingEvents[ip])])
EventsNotYetDispatched ==
  EventsInHandOff + EventsQueued
  + SumOver(eventGos, [g \in eventGos |-> Len(g.events) - g.dispatched])

\* C7: shutdown drain. Once the context is cancelled and WaitForEvents is
\* called, the in-flight counter reaches zero: when Run has returned, no
\* dispatch goroutine is left and no caller is in DispatchEvent, nothing can
\* decrement the counter any more, so it must be zero by then.
C7_ShutdownDrains ==
  (waitPc = "waiting" /\ ctxDone /\ runPc = "returned"
     /\ evPc = "idle" /\ eventGos = {}) => wg = 0

\* C8 as claimed: in every reachable state the WaitGroup counter equals the
\* number of cache-missing events not yet dispatched or abandoned.
C8_CounterIsUndispatched == wg = EventsNotYetDispatched

\* C8 as amended: the counter is incremented once per cache-missing event
\* before the hand-off, decremented once when the hand-off is abandoned, and
\* decremented for all events of a drained list together when the goroutine
\* that dispatches them returns. So the counter equals the events in
\* hand-off, queued, or held by a dispatch goroutine that has not returned
\* (dispatched or not); it is never below the undispatched events or zero.
C8_CounterIsInFlight ==
  /\ wg = EventsInHandOff + EventsQueued
            + SumOver(eventGos, [g \in eventGos |-> Len(g.events)])
  /\ wg >= EventsNotYetDispatched
  /\ wg >= 0

\* C8 witness: a goroutine has dispatched one of its two events.
C8_Witness ==
  \E g \in eventGos : Len(g.events) >= 2 /\ g.dispatched = 1

\* ------------------------------------------------------------------------
\* Properties of the order of events (SpecEvents)
\* ------------------------------------------------------------------------
InHandlerE(id) == \E k \in 1..Len(handlerE) : handlerE[k].id = id
PosInHandlerE(id) == CHOOSE k \in 1..Len(handlerE) : handlerE[k].id = id

\* C6 as claimed: events are FIFO per source. Ids follow the order of the
\* DispatchEvent calls: of two events of one source the downstream handler
\* receives the one passed first before the other.
C6_EventsFIFOPerSource ==
  \A i, j \in 1..Len(handlerE) :
    (i < j /\ evSource[handlerE[i].id] = evSource[handlerE[j].id])
      => handlerE[i].id < handlerE[j].id

\* C6 as amended: events of one source that miss the cache and are drained
\* by the same InstanceInfo arrival reach the downstream handler in the order
\* they were passed to DispatchEvent (by one caller).
C6_FIFOWithinDrain ==
  \A d \in drained :
    \A a, b \in 1..Len(d) :
      a < b =>
        /\ d[a].id < d[b].id
        /\ InHandlerE(d[b].id) =>
             /\ InHandlerE(d[a].id)
             /\ PosInHandlerE(d[a].id) < PosInHandlerE(d[b].id)

\* C6 witness: two events drained together have both reached the handler.
C6_Witness ==
  \E d \in drained :
    /\ Len(d) >= 2
    /\ \A a \in 1..Len(d) : InHandlerE(d[a].id)

\* ------------------------------------------------------------------------
\* Properties of the lookup stack under an endless stream (SpecLive)
\* ------------------------------------------------------------------------
\* C10: no starvation of lookups. Under fair scheduling and a provider that
\* receives and answers, every IP pushed onto toLookupIPs is eventually sent
\* on ipSink, whatever metrics keep arriving for other IPs.
C10_NoLookupStarvation ==
  \A ip \in IPs : (Count(ip, toLookupIPs) > 0) ~> (lookupsSent[ip] = 1)

\* The IPs for which the provider finds an instance.
KnownIPs == {ip \in IPs : ~LookupResult(ip).isNil}

\* C11: cold-cache enrichment. A metric that missed the cache and was queued
\* for an IP the provider knows is eventually taken out of the pending queue
\* by the InstanceInfo for its IP (and then dispatched downstream, enriched),
\* under fair scheduling, with the provider answering every lookup it is sent
\* and no cancellation.
C11_ColdCacheEnriched ==
  \A ip \in KnownIPs :
    (Len(awaitingMetrics[ip]) > 0) ~> (Len(awaitingMetrics[ip]) = 0)

\* ------------------------------------------------------------------------
\* Properties of what reaches the downstream handler (SpecEnrich)
\* ------------------------------------------------------------------------
\* The metrics and events the downstream handler has received.
MetricsAtHandler ==
  UNION {{handlerMaps[k][i] : i \in 1..Len(handlerMaps[k])} : k \in 1..Len(handlerMaps)}
EventsAtHandler == {handlerE[k] : k \in 1..Len(handlerE)}

\* The metrics and events waiting for an InstanceInfo.
MetricsAwaiting ==
  UNION {{awaitingMetrics[s][i] : i \in 1..Len(awaitingMetrics[s])} : s \in Sources}
EventsAwaiting ==
  UNION {{awaitingEvents[s][i] : i \in 1..Len(awaitingEvents[s])} : s \in Sources}

\* The safety half of C11: what waits for an InstanceInfo has not reached the
\* downstream handler, and what the handler has of a known IP carries the
\* instance's id as its source and the instance's tags.
ForwardedOnlyEnriched ==
  /\ \A m \in MetricsAwaiting : \A h \in MetricsAtHandler : h.id # m.id
  /\ \A e \in EventsAwaiting : \A h \in EventsAtHandler : h.id # e.id
  /\ \A h \in MetricsAtHandler \cup EventsAtHandler :
       /\ h.Source \notin KnownIPs
       /\ \A ip \in KnownIPs :
            h.Source = InstanceFor(ip).ID => InstanceFor(ip).Tags \subseteq h.Tags

\* The InstanceInfo values Run handles in this step, with a nil instance.
NegativeInfos == {info \in infoOut \ infoOut' : info.Instance.isNil}

\* C16: negative lookup. When Run handles an InstanceInfo whose instance is
\* nil, both pending queues of the IP are removed, the queued-item counters
\* go down by the lengths drained and the queued-host counters by one per
\* queue drained, the drained metrics and events are handed to goroutines
\* that dispatch every one of them downstream, tags and source unchanged.
C16_NegativeLookup ==
  /\ [][\A info \in NegativeInfos :
          LET ms == awaitingMetrics[info.IP]
              es == awaitingEvents[info.IP]
          IN /\ awaitingMetrics'[info.IP] = <<>>
             /\ awaitingEvents'[info.IP] = <<>>
             /\ statsMetricItemsQueued' = statsMetricItemsQueued - Len(ms)
             /\ statsEventItemsQueued' = statsEventItemsQueued - Len(es)
             /\ statsMetricHostsQueued' =
                  statsMetricHostsQueued - (IF Len(ms) > 0 THEN 1 ELSE 0)
             /\ statsEventHostsQueued' =
                  statsEventHostsQueued - (IF Len(es) > 0 THEN 1 ELSE 0)
             /\ Len(ms) > 0 =>
                  \E g \in metricGos' \ metricGos :
                    g.metrics = ms /\ g.instance.isNil
             /\ Len(es) > 0 =>
                  \E g \in eventGos' \ eventGos :
                    g.events = es /\ g.instance.isNil /\ g.i = 1]_vars
  /\ [][\A g \in metricGos \ metricGos' :
          g.instance.isNil => handlerMaps' = Append(handlerMaps, g.metrics)]_vars
  /\ [][\A g \in eventGos \ eventGos' :
          (g.instance.isNil /\ g.i <= Len(g.events)) =>
            handlerE' = Append(handlerE, g.events[g.i])]_vars
  /\ [](\A g \in eventGos : g.instance.isNil =>
          \A k \in 1..(g.i - 1) : g.events[k] \in EventsAtHandler)

\* A metric and an event of 10.0.0.2 missed the cache, were drained by the
\* InstanceInfo with a nil instance, and have reached the downstream handler
\* as they were passed.
C16_Witness ==
  /\ statsCacheHit = 0
  /\ metricGos = {}
  /\ eventGos = {}
  /\ \E m \in MetricsAtHandler : m.Source = "10.0.0.2" /\ m.Tags = {}
  /\ \E d \in drained :
       \E k \in 1..Len(d) :
         d[k].Source = "10.0.0.2" /\ d[k] \in EventsAtHandler

\* C17: UnknownSource bypass. A metric or event whose source is
\* UnknownSource is forwarded downstream by the call that passed it, tags and
\* source unchanged; Peek is not called and statsCacheHit and statsCacheMiss
\* do not change; it is never placed in awaitingMetrics or awaitingEvents, and
\* UnknownSource is never pushed on toLookupIPs or sent on ipSink.
C17_UnknownSourceBypass ==
  /\ [][(pmPc = "loop" /\ pmI' = pmI + 1 /\ pmMetrics[pmI].Source = UnknownSource) =>
          /\ mmToDispatch' = Append(mmToDispatch, pmMetrics[pmI])
          /\ toHandle' = toHandle
          /\ UNCHANGED cacheStats]_vars
  /\ [][(pmPc = "dispatch" /\ pmPc' # "dispatch" /\ Len(mmToDispatch) > 0) =>
          handlerMaps' = Append(handlerMaps, mmToDispatch)]_vars
  /\ [][(nextEvent' = nextEvent + 1 /\ evSource'[nextEvent'] = UnknownSource) =>
          /\ handlerE' = Append(handlerE, Item(nextEvent', UnknownSource))
          /\ UNCHANGED <<cacheStats, wg, evPc, evE>>]_vars
  /\ [](/\ awaitingMetrics[UnknownSource] = <<>>
        /\ awaitingEvents[UnknownSource] = <<>>
        /\ \A k \in 1..Len(toHandle) : toHandle[k].Source # UnknownSource
        /\ evE.Source = UnknownSource => evPc = "idle"
        /\ Count(UnknownSource, toLookupIPs) = 0
        /\ ~OnOffer(UnknownSource)
        /\ UnknownSource \notin lookingUp
        /\ peeks = statsCacheHit + statsCacheMiss)

\* A metric and an event with UnknownSource have reached the downstream
\* handler untouched, and the cache was never asked.
C17_Witness ==
  /\ peeks = 0
  /\ Item(1, UnknownSource) \in MetricsAtHandler
  /\ Item(1, UnknownSource) \in EventsAtHandler

\* ------------------------------------------------------------------------
\* Properties of the queued-host counters (SpecLookup)
\* ------------------------------------------------------------------------
\* The IPs with a non-empty queue of metrics, and of events.
MetricHosts == {ip \in IPs : Len(awaitingMetrics[ip]) > 0}
EventHosts == {ip \in IPs : Len(awaitingEvents[ip]) > 0}

\* C24: the queued-host gauges are exact. In every reachable state of Run,
\* statsMetricHostsQueued is the number of IPs with a non-empty awaitingMetrics
\* queue and statsEventHostsQueued the number of IPs with a non-empty
\* awaitingEvents queue, and neither counter has gone below zero.
C24_HostGaugesExact ==
  /\ statsMetricHostsQueued = Cardinality(MetricHosts)
  /\ statsEventHostsQueued = Cardinality(EventHosts)
  /\ statsMetricHostsQueued >= 0
  /\ statsEventHostsQueued >= 0

\* ------------------------------------------------------------------------
\* Properties of the hand-off (SpecEnrich)
\* ------------------------------------------------------------------------
\* How often the item id occurs in a list of items.
Occ(items, id) == Cardinality({i \in 1..Len(items) : items[i].id = id})

\* Where metric id is: with the caller (before the hits are dispatched all of
\* the call's metrics, afterwards those it has yet to hand to Run), in a
\* pending queue, with a dispatch goroutine, at the downstream handler.
MetricWithCaller(id) ==
  IF pmPc = "send" THEN Occ(toHandle, id) ELSE Occ(pmMetrics, id)
MetricQueued(id) ==
  SumOver(Sources, [s \in Sources |-> Occ(awaitingMetrics[s], id)])
MetricWithGoroutine(id) ==
  SumOver(metricGos, [g \in metricGos |-> Occ(g.metrics, id)])
MetricForwarded(id) ==
  SumOver(1..Len(handlerMaps),
          [k \in 1..Len(handlerMaps) |-> Occ(handlerMaps[k], id)])

\* The same for event id; a goroutine holds the events it has yet to dispatch.
EventWithCaller(id) == IF evPc = "send" /\ evE.id = id THEN 1 ELSE 0
EventQueued(id) ==
  SumOver(Sources, [s \in Sources |-> Occ(awaitingEvents[s], id)])
EventWithGoroutine(id) ==
  SumOver(eventGos,
          [g \in eventGos |-> Occ(SubSeq(g.events, g.i, Len(g.events)), id)])
EventForwarded(id) == Occ(handlerE, id)

\* The InstanceInfo values Run handles in this step.
InfosHandled == infoOut \ infoOut'

\* C25: exactly-once hand-off. Every metric and event passed to the
\* CloudHandler is in exactly one place: with its caller, in a pending queue,
\* with one dispatch goroutine, or forwarded downstream once; so nothing is
\* forwarded twice and nothing is both pending and forwarded. When
\* handleInstanceInfo drains an IP, each non-empty queue goes, whole, to
\* exactly one new goroutine and the pending queues of the IP are empty; the
\* first item that arrives for the IP afterwards is alone in a new queue and
\* the IP is put up for a new lookup.
C25_ExactlyOnce ==
  /\ [](/\ \A id \in 1..nextMetric :
             /\ MetricWithCaller(id) + MetricQueued(id)
                  + MetricWithGoroutine(id) + MetricForwarded(id) = 1
             /\ MetricForwarded(id) <= 1
        /\ \A id \in 1..nextEvent :
             /\ EventWithCaller(id) + EventQueued(id)
                  + EventWithGoroutine(id) + EventForwarded(id) = 1
             /\ EventForwarded(id) <= 1)
  /\ [][\A info \in InfosHandled :
          LET ms == awaitingMetrics[info.IP]
              es == awaitingEvents[info.IP]
          IN /\ awaitingMetrics'[info.IP] = <<>>
             /\ awaitingEvents'[info.IP] = <<>>
             /\ metricGos \subseteq metricGos'
             /\ eventGos \subseteq eventGos'
             /\ Cardinality(metricGos' \ metricGos) = (IF ms # <<>> THEN 1 ELSE 0)
             /\ Cardinality(eventGos' \ eventGos) = (IF es # <<>> THEN 1 ELSE 0)
             /\ \A g \in metricGos' \ metricGos : g.metrics = ms
             /\ \A g \in eventGos' \ eventGos : g.events = es /\ g.i = 1]_vars
  /\ [][\A ip \in IPs :
          (~Pending(ip) /\ Pending(ip)') =>
            /\ lookupsSent'[ip] = 0
            /\ Count(ip, toLookupIPs') + (IF OnOffer(ip)' THEN 1 ELSE 0) = 1
            /\ \A m \in 1..Len(awaitingMetrics'[ip]) :
                 MetricWithCaller(awaitingMetrics'[ip][m].id) = 1
            /\ \A e \in 1..Len(awaitingEvents'[ip]) :
                 EventWithCaller(awaitingEvents'[ip][e].id) = 1]_vars

\* An event of an IP was drained and forwarded; the cache entry expired, and
\* a metric that arrived later for the IP waits in a new queue, the IP sent
\* for a second lookup.
C25_Witness ==
  \E ip \in IPs :
    /\ \E d \in drained : d[1].Source = ip /\ EventForwarded(d[1].id) = 1
    /\ Len(awaitingMetrics[ip]) = 1
    /\ lookupsSent[ip] = 1

\* ------------------------------------------------------------------------
\* Properties of the lookup slot (SpecEnrich)
\* ------------------------------------------------------------------------
\* ip is sent on ipSink in this step.
SentNow(ip) == lookupsSent'[ip] = lookupsSent[ip] + 1

\* C27: lookup slot discipline. The slot holds at most one IP; the send
\* branch is enabled (toLookupC is ipSink) exactly when toLookupIP holds an IP
\* that was popped from toLookupIPs and not sent yet, and that IP stays on
\* offer until it is sent; the slot is only free while the stack is empty; the
\* value sent is an IP, never UnknownSource; and an IP on offer, and so every
\* IP sent, has a non-empty pending queue. The provider delivers an
\* InstanceInfo only in answer to an IP it received.
C27_LookupSlot ==
  /\ [](/\ toLookupC \in {Nil, "ipSink"}
        /\ toLookupC = "ipSink" <=> toLookupIP # UnknownSource
        /\ toLookupC = "ipSink" =>
             /\ toLookupIP \in IPs
             /\ Pending(toLookupIP)
             /\ Count(toLookupIP, toLookupIPs) = 0
             /\ lookupsSent[toLookupIP] = 0
        /\ toLookupC = Nil => toLookupIPs = <<>>)
  /\ [][\A ip \in IPs :
          /\ OnOffer(ip) => (OnOffer(ip)' \/ SentNow(ip))
          /\ SentNow(ip) =>
               /\ OnOffer(ip)
               /\ Pending(ip)
               /\ ip \in lookingUp'
               /\ \A other \in IPs \ {ip} : UNCHANGED lookupsSent[other]
          /\ (~OnOffer(ip) /\ OnOffer(ip)') =>
               /\ Count(ip, toLookupIPs') = 0
               /\ Count(ip, toLookupIPs) = 1 \/ ~Pending(ip)
               /\ toLookupC = Nil \/ SentNow(toLookupIP)]_vars

\* One IP was sent and is being looked up; the next one, popped from the
\* stack by that send, is on offer.
C27_Witness ==
  \E a, b \in IPs :
    /\ a # b
    /\ OnOffer(a)
    /\ b \in lookingUp
    /\ lookupsSent[b] = 1
    /\ Pending(b)

\* ========================================================================
\* worker (pkg/statsd): one aggregator shard fed by two channels
\* ========================================================================
MaxQueueCap == 2
MaxMaps == 3
MaxCmds == 2

\* The worker forgets the map instead of giving it to the aggregator.
AggrReceiveMap_Dropped(aggr, mm) == aggr

\* w.aggr.ReceiveMap(mm): the aggregator takes the map in.
AggrReceiveMap(aggr, mm) == Append(aggr, mm)

\* A goroutine's send "w.metricMapQueue <- mm" completes into the buffer.
\* A call on the aggregator, made by the worker's goroutine.
AggrOp(op, arg) == [op |-> op, arg |-> arg, goroutine |-> "work"]

ExecuteProcess_Go == "select"

\* work: w.executeProcess(cmd) is a plain call: the loop waits for it.
ExecuteProcess == "process"

cmdDone_Skipped(calls, id) == calls

\* executeProcess: defer cmd.done().
cmdDone(calls, id) == [calls EXCEPT ![id] = @ + 1]

PutMap ==
  /\ ~queueClosed
  /\ nextMap < MaxMaps
  /\ Len(metricMapQueue) < queueCap
  /\ nextMap' = nextMap + 1
  /\ placed' = placed + 1
  /\ metricMapQueue' = Append(metricMapQueue, nextMap + 1)
  /\ UNCHANGED <<chVars, ddVars, flVars, bkVars, seVars, cxVars, aggrOps, queueCap, queueClosed, wkPc, wkCur,
                 received, cmdWaiting, ran, doneCalls, nextCmd>>

\* close(w.metricMapQueue), by the owner of the channel when it shuts down.
CloseQueue ==
  /\ ~queueClosed
  /\ queueClosed' = TRUE
  /\ UNCHANGED <<chVars, ddVars, flVars, bkVars, seVars, cxVars, aggrOps, queueCap, metricMapQueue, wkPc, wkCur,
                 received, cmdWaiting, ran, doneCalls, nextMap, nextCmd, placed>>

\* A goroutine builds a processCommand and blocks in "w.processChan <- cmd".
\* after: the maps whose send had completed when the command was submitted.
SubmitProcess ==
  /\ nextCmd < MaxCmds
  /\ nextCmd' = nextCmd + 1
  /\ cmdWaiting' = cmdWaiting \cup {[id |-> nextCmd + 1, after |-> placed]}
  /\ doneCalls' = Append(doneCalls, 0)
  /\ UNCHANGED <<chVars, ddVars, flVars, bkVars, seVars, cxVars, aggrOps, queueCap, metricMapQueue, queueClosed,
                 wkPc, wkCur, received, ran, nextMap, placed>>

\* work, case mm, ok := <-w.metricMapQueue with a buffered map, ok = true.
WorkRecvMap ==
  /\ wkPc = "select"
  /\ Len(metricMapQueue) > 0
  /\ wkCur' = [mm |-> Head(metricMapQueue), cmd |-> NoCmd]
  /\ metricMapQueue' = Tail(metricMapQueue)
  /\ wkPc' = "receiveMap"
  /\ aggrOps' = aggrOps \cup {AggrOp("ReceiveMap", Head(metricMapQueue))}
  /\ UNCHANGED <<chVars, ddVars, flVars, bkVars, seVars, cxVars, queueCap, queueClosed, received,
                 cmdWaiting, ran, doneCalls, nextMap, nextCmd, placed>>

\* The same case on an unbuffered channel: the send and the receive meet.
WorkRecvMapDirect ==
  /\ wkPc = "select"
  /\ queueCap = 0
  /\ ~queueClosed
  /\ nextMap < MaxMaps
  /\ nextMap' = nextMap + 1
  /\ placed' = placed + 1
  /\ wkCur' = [mm |-> nextMap + 1, cmd |-> NoCmd]
  /\ wkPc' = "receiveMap"
  /\ aggrOps' = aggrOps \cup {AggrOp("ReceiveMap", nextMap + 1)}
  /\ UNCHANGED <<chVars, ddVars, flVars, bkVars, seVars, cxVars, queueCap, metricMapQueue, queueClosed,
                 received, cmdWaiting, ran, doneCalls, nextCmd>>

\* The same case with ok = false: the channel is closed and empty; return.
WorkRecvClosed ==
  /\ wkPc = "select"
  /\ queueClosed
  /\ Len(metricMapQueue) = 0
  /\ wkPc' = "returned"
  /\ UNCHANGED <<chVars, ddVars, flVars, bkVars, seVars, cxVars, aggrOps, queueCap, metricMapQueue, queueClosed,
                 wkCur, received, cmdWaiting, ran, doneCalls, nextMap, nextCmd,
                 placed>>

\* w.aggr.ReceiveMap(mm) returns.
WorkReceiveMap ==
  /\ wkPc = "receiveMap"
  /\ received' = AggrReceiveMap(received, wkCur.mm)
  /\ aggrOps' = aggrOps \ {AggrOp("ReceiveMap", wkCur.mm)}
  /\ wkCur' = Holding
  /\ wkPc' = "select"
  /\ UNCHANGED <<chVars, ddVars, flVars, bkVars, seVars, cxVars, queueCap, metricMapQueue, queueClosed,
                 cmdWaiting, ran, doneCalls, nextMap, nextCmd, placed>>

\* work, case cmd := <-w.processChan: the worker enters executeProcess(cmd).
WorkRecvCmd(cmd) ==
  /\ wkPc = "select"
  /\ cmd \in cmdWaiting
  /\ cmdWaiting' = cmdWaiting \ {cmd}
  /\ wkCur' = [mm |-> 0, cmd |-> cmd]
  /\ wkPc' = ExecuteProcess
  /\ aggrOps' = aggrOps \cup {AggrOp("f", cmd.id)}
  /\ UNCHANGED <<chVars, ddVars, flVars, bkVars, seVars, cxVars, queueCap, metricMapQueue, queueClosed,
                 received, ran, doneCalls, nextMap, nextCmd, placed>>

\* executeProcess: cmd.f(w.id, w.aggr) runs on the aggregator as it is now.
WorkRunF ==
  /\ wkPc = "process"
  /\ ran' = ran \cup {[id |-> wkCur.cmd.id, after |-> wkCur.cmd.after,
                       seen |-> Len(received)]}
  /\ aggrOps' = aggrOps \ {AggrOp("f", wkCur.cmd.id)}
  /\ wkPc' = "done"
  /\ UNCHANGED <<chVars, ddVars, flVars, bkVars, seVars, cxVars, queueCap, metricMapQueue, queueClosed,
                 wkCur, received, cmdWaiting, doneCalls, nextMap, nextCmd,
                 placed>>

\* executeProcess: the deferred cmd.done() runs and work loops.
WorkDone ==
  /\ wkPc = "done"
  /\ doneCalls' = cmdDone(doneCalls, wkCur.cmd.id)
  /\ wkCur' = Holding
  /\ wkPc' = "select"
  /\ UNCHANGED <<chVars, ddVars, flVars, bkVars, seVars, cxVars, aggrOps, queueCap, metricMapQueue, queueClosed,
                 received, cmdWaiting, ran, nextMap, nextCmd, placed>>

InitWorker ==
  /\ CHInit
  /\ capture = FALSE
  /\ endless = FALSE
  /\ metricsLeft = 0
  /\ eventsLeft = 0
  /\ \E c \in 0..MaxQueueCap : WkInit(c)
  /\ DDInit(0, 0, 0)
  /\ FlInit
  /\ BkInit(0)
  /\ SeInit({MaxElapsed}, 0)
  /\ CxInit("worker")

NextWorker ==
  \/ PutMap
  \/ CloseQueue
  \/ SubmitProcess
  \/ WorkRecvMap
  \/ WorkRecvMapDirect
  \/ WorkRecvClosed
  \/ WorkReceiveMap
  \/ \E cmd \in cmdWaiting : WorkRecvCmd(cmd)
  \/ WorkRunF
  \/ WorkDone

SpecWorker == InitWorker /\ [][NextWorker]_vars

\* C3 (as stated): a process command submitted after a MetricMap was placed on
\* metricMapQueue is never executed before that map was passed to
\* aggr.ReceiveMap: when f runs, every map placed before the command was
\* submitted has been received by the aggregator.
C3_ProcessNeverOvertakes == \A r \in ran : r.seen >= r.after

\* C3 (as the code has it): the maps reach aggr.ReceiveMap in the order they
\* were placed on metricMapQueue, and a process command overtakes at most
\* cap(metricMapQueue) of the maps placed before it, those still in the buffer
\* when select takes the command; with an unbuffered queue it overtakes none.
C3_OvertakesAtMostCap ==
  /\ received = [i \in 1..Len(received) |-> i]
  /\ \A r \in ran : r.after - r.seen <= queueCap

\* A command submitted after maps were placed on a buffered queue ran while the
\* whole buffer was still waiting.
C3_Witness ==
  /\ queueCap >= 1
  /\ \E r \in ran : r.after >= 1 /\ r.after - r.seen = queueCap

\* The process commands the worker has received.
CmdsReceived == {id \in 1..nextCmd : \A c \in cmdWaiting : c.id # id}

\* C19: for every process command a worker receives, cmd.done is invoked
\* exactly once, and only after cmd.f(id, aggr) has returned: not while the
\* worker is in f or before it, and once when executeProcess has returned.
C19_DoneOnceAfterF ==
  \A id \in 1..nextCmd :
    LET current == wkPc \in {"process", "done"} /\ wkCur.cmd.id = id
    IN /\ doneCalls[id] <= 1
       /\ doneCalls[id] = 1 => \E r \in ran : r.id = id
       /\ (id \in CmdsReceived /\ ~current) => doneCalls[id] = 1
       /\ (id \notin CmdsReceived \/ current) => doneCalls[id] = 0

\* Every command submitted was received and acknowledged.
C19_Witness ==
  /\ nextCmd = MaxCmds
  /\ \A id \in 1..nextCmd : doneCalls[id] = 1

\* C20: per-shard confinement. The calls of ReceiveMap and the process
\* functions on a worker's aggregator are made by the worker's goroutine, and
\* at most one of them is in progress at any time.
C20_ShardConfinement ==
  /\ Cardinality(aggrOps) <= 1
  /\ \A o \in aggrOps : o.goroutine = "work"
  /\ aggrOps # {} <=> wkPc \in {"receiveMap", "process"}

\* A process function is running on the aggregator while a map waits in the
\* queue and another command waits on processChan.
C20_Witness ==
  /\ \E o \in aggrOps : o.op = "f"
  /\ Len(metricMapQueue) > 0
  /\ cmdWaiting # {}

\* ========================================================================
\* datadog.Client: SendMetricsAsync, its post goroutines and the buffer pool
\* ========================================================================
MaxPool == 1
MaxCalls == 1
MaxPosts == 2
SeriesPerBatch == 2
MaxRetries == 1

\* The deferred function is missing: the buffer never goes back.
ReturnBuffer_Kept(sem, buffer) == sem

\* defer func() { buffer.Reset(); d.metricsBufferSem <- buffer }()
ReturnBuffer(sem, buffer) == Append(sem, buffer)

\* A post goroutine: where it is, the buffer it holds, the error postMetrics
\* returned. For the record: live, whether the context was still open when
\* post was entered; attempted, whether an HTTP request was made for its batch.
Post(call, id, size) ==
  [call |-> call, id |-> id, size |-> size, pc |-> "start", buffer |-> 0,
   err |-> NoError, live |-> TRUE, attempted |-> FALSE]

\* The batches processMetrics hands to the callback: their series counts.
BatchSizes == {[i \in 1..n |-> SeriesPerBatch] : n \in 0..MaxPosts}

exceptCtxDone == <<capture, endless, metricsLeft, eventsLeft, cache, lookingUp,
                   infoOut, handlerMaps, handlerE, runPc, toLookupC, toLookupIP,
                   toLookupIPs, awaitingMetrics, awaitingEvents,
                   statsMetricItemsQueued, statsMetricHostsQueued,
                   statsEventItemsQueued, statsEventHostsQueued, wg, pmPc,
                   pmMetrics, pmI, mmToDispatch, toHandle, evPc, evE, metricGos,
                   eventGos, waitPc, nextMetric, nextEvent, evSource, drained,
                   lookupsSent, statsCacheHit, statsCacheMiss,
                   peeks>>

\* What the goroutines of SendMetricsAsync leave alone, but for ctx.
otherThanDD == <<exceptCtxDone, wkVars, flVars, bkVars, seVars, cxVars>>

ddCounters == <<batchesCreated, batchesDropped, batchesSent, seriesSent,
                batchesRetried>>

\* SendMetricsAsync: processMetrics calls the callback once per batch, which
\* counts the batch and starts its goroutine; then the collector is started.
AddUint64_Lost(n, delta) == n

\* atomic.AddUint64(&d.<counter>, delta).
AddUint64(n, delta) == n + delta

ConstructPostThen_Attempt(marshalled) == "attempt"

\* post, after constructPost: on an error it returns at once, otherwise it
\* enters the loop of attempts.
ConstructPostThen(marshalled) == IF marshalled THEN "attempt" ELSE "report"

SendMetricsAsync(sizes) ==
  /\ callsLeft > 0
  /\ Len(sizes) <= postsLeft
  /\ callsLeft' = callsLeft - 1
  /\ postsLeft' = postsLeft - Len(sizes)
  /\ batchesCreated' = AddUint64(batchesCreated, Len(sizes))
  /\ posts' = posts \cup {Post(callsLeft, i, sizes[i]) : i \in 1..Len(sizes)}
  /\ collectors' = collectors \cup
       {[call |-> callsLeft, counter |-> Len(sizes), c |-> 0, errs |-> <<>>]}
  /\ UNCHANGED <<otherThanDD, ctxDone, maxRequests, metricsBufferSem, callbacks,
                 batchesDropped, batchesSent, seriesSent, batchesRetried>>

SetPost(p, q) == posts' = (posts \ {p}) \cup {q}

\* go func: select, case <-ctx.Done(): return.
PostCtxDone(p) ==
  /\ p.pc = "start"
  /\ ctxDone
  /\ posts' = posts \ {p}
  /\ UNCHANGED <<otherThanDD, ctxDone, maxRequests, metricsBufferSem, collectors,
                 callbacks, ddCounters, callsLeft, postsLeft>>

\* go func: select, case buffer := <-d.metricsBufferSem; postMetrics begins and
\* constructPost marshals the batch into the buffer, or fails to.
PostAcquire(p, marshalled) ==
  /\ p.pc = "start"
  /\ Len(metricsBufferSem) > 0
  /\ metricsBufferSem' = Tail(metricsBufferSem)
  /\ SetPost(p, [p EXCEPT !.pc = ConstructPostThen(marshalled),
                          !.err = IF marshalled THEN NoError ELSE ErrMarshal,
                          !.live = ~ctxDone,
                          !.buffer = Head(metricsBufferSem)])
  /\ batchesDropped' = IF marshalled THEN batchesDropped
                                     ELSE AddUint64(batchesDropped, 1)
  /\ UNCHANGED <<otherThanDD, ctxDone, maxRequests, collectors, callbacks,
                 batchesCreated, batchesSent, seriesSent, batchesRetried,
                 callsLeft, postsLeft>>

\* post: one turn of the loop, up to its return or its select. The HTTP
\* attempt succeeds (postMetrics then counts the series), or it fails and
\* b.NextBackOff() says Stop, or it fails and a timer is started.
PostAttempt(p, outcome) ==
  /\ p.pc = "attempt"
  /\ outcome = "retry" => batchesRetried < MaxRetries
  /\ CASE outcome = "ok" ->
            /\ SetPost(p, [p EXCEPT !.pc = "report", !.err = NoError,
                                    !.attempted = TRUE])
            /\ batchesSent' = AddUint64(batchesSent, 1)
            /\ seriesSent' = AddUint64(seriesSent, p.size)
            /\ UNCHANGED batchesDropped
       [] outcome = "stop" ->
            /\ SetPost(p, [p EXCEPT !.pc = "report", !.err = ErrPost,
                                    !.attempted = TRUE])
            /\ batchesDropped' = AddUint64(batchesDropped, 1)
            /\ UNCHANGED <<batchesSent, seriesSent>>
       [] outcome = "retry" ->
            /\ SetPost(p, [p EXCEPT !.pc = "timer", !.attempted = TRUE])
            /\ UNCHANGED <<batchesSent, seriesSent, batchesDropped>>
  /\ UNCHANGED <<otherThanDD, ctxDone, maxRequests, metricsBufferSem, collectors,
                 callbacks, batchesCreated, batchesRetried, callsLeft, postsLeft>>

\* post: select, case <-ctx.Done(): timer.Stop(); return ctx.Err().
PostTimerCtxDone(p) ==
  /\ p.pc = "timer"
  /\ ctxDone
  /\ SetPost(p, [p EXCEPT !.pc = "report", !.err = ErrCanceled])
  /\ UNCHANGED <<otherThanDD, ctxDone, maxRequests, metricsBufferSem, collectors,
                 callbacks, ddCounters, callsLeft, postsLeft>>

\* post: select, case <-timer.C; the retry is counted and the loop goes on.
PostTimerFires(p) ==
  /\ p.pc = "timer"
  /\ SetPost(p, [p EXCEPT !.pc = "attempt"])
  /\ batchesRetried' = AddUint64(batchesRetried, 1)
  /\ UNCHANGED <<otherThanDD, ctxDone, maxRequests, metricsBufferSem, collectors,
                 callbacks, batchesCreated, batchesDropped, batchesSent,
                 seriesSent, callsLeft, postsLeft>>

\* go func: select, case results <- err, met by the collector's
\* case err := <-results; then the deferred function returns the buffer.
PostReport(p, col) ==
  /\ p.pc = "report"
  /\ col \in collectors
  /\ col.call = p.call
  /\ col.c < col.counter
  /\ collectors' = (collectors \ {col}) \cup
       {[col EXCEPT !.c = @ + 1, !.errs = Append(@, p.err)]}
  /\ posts' = posts \ {p}
  /\ metricsBufferSem' = ReturnBuffer(metricsBufferSem, p.buffer)
  /\ UNCHANGED <<otherThanDD, ctxDone, maxRequests, callbacks, ddCounters,
                 callsLeft, postsLeft>>

\* go func: select, case <-ctx.Done(); then the deferred function.
PostReportCtxDone(p) ==
  /\ p.pc = "report"
  /\ ctxDone
  /\ posts' = posts \ {p}
  /\ metricsBufferSem' = ReturnBuffer(metricsBufferSem, p.buffer)
  /\ UNCHANGED <<otherThanDD, ctxDone, maxRequests, collectors, callbacks,
                 ddCounters, callsLeft, postsLeft>>

\* Collector: case <-ctx.Done(): errs = append(errs, ctx.Err()); break loop;
\* cb(errs).
CollectorCtxDone(col) ==
  /\ col \in collectors
  /\ col.c < col.counter
  /\ ctxDone
  /\ collectors' = collectors \ {col}
  /\ callbacks' = callbacks \cup
       {[call |-> col.call, counter |-> col.counter,
         errs |-> Append(col.errs, ErrCanceled)]}
  /\ UNCHANGED <<otherThanDD, ctxDone, maxRequests, metricsBufferSem, posts,
                 ddCounters, callsLeft, postsLeft>>

\* Collector: the loop ends with c = counter; cb(errs).
CollectorDone(col) ==
  /\ col \in collectors
  /\ col.c = col.counter
  /\ collectors' = collectors \ {col}
  /\ callbacks' = callbacks \cup
       {[call |-> col.call, counter |-> col.counter,
         errs |-> col.errs]}
  /\ UNCHANGED <<otherThanDD, ctxDone, maxRequests, metricsBufferSem, posts,
                 ddCounters, callsLeft, postsLeft>>

InitDD ==
  /\ CHInit
  /\ capture = FALSE
  /\ endless = FALSE
  /\ metricsLeft = 0
  /\ eventsLeft = 0
  /\ WkInit(0)
  /\ \E n \in 0..MaxPool : DDInit(n, MaxCalls, MaxPosts)
  /\ FlInit
  /\ BkInit(0)
  /\ SeInit({MaxElapsed}, 0)
  /\ CxInit("Client")

\* A step of some post goroutine, and a step of some collector.
PostStep ==
  \E p \in posts :
    \/ PostCtxDone(p)
    \/ \E marshalled \in BOOLEAN : PostAcquire(p, marshalled)
    \/ \E outcome \in {"ok", "stop", "retry"} : PostAttempt(p, outcome)
    \/ PostTimerCtxDone(p)
    \/ PostTimerFires(p)
    \/ \E col \in collectors : PostReport(p, col)
    \/ PostReportCtxDone(p)

CollectorStep ==
  \E col \in collectors : CollectorCtxDone(col) \/ CollectorDone(col)

NextDD ==
  \/ \E sizes \in BatchSizes : SendMetricsAsync(sizes)
  \/ \E p \in posts :
       \/ PostCtxDone(p)
       \/ \E marshalled \in BOOLEAN : PostAcquire(p, marshalled)
       \/ \E outcome \in {"ok", "stop", "retry"} : PostAttempt(p, outcome)
       \/ PostTimerCtxDone(p)
       \/ PostTimerFires(p)
       \/ \E col \in collectors : PostReport(p, col)
       \/ PostReportCtxDone(p)
  \/ \E col \in collectors : CollectorCtxDone(col)
  \/ \E col \in collectors : CollectorDone(col)
  \/ CtxCancel

SpecDD == InitDD /\ [][NextDD]_vars

Holders == {p \in posts : p.buffer # 0}

\* C4: the buffers in metricsBufferSem and the buffers held by post goroutines
\* are together exactly the maxRequests buffers NewClient made, each once; so
\* len(metricsBufferSem) plus the number of holders is maxRequests and at most
\* maxRequests posts run at once.
C4_BufferPoolConserved ==
  /\ Len(metricsBufferSem) + Cardinality(Holders) = maxRequests
  /\ \A b \in 1..maxRequests :
       Count(b, metricsBufferSem) + Cardinality({p \in Holders : p.buffer = b}) = 1
  /\ \A p \in posts : p.pc # "start" <=> p.buffer # 0

\* The pool is whole again after posts ended by success, by marshal failure,
\* by retry exhaustion and by cancellation.
C4_Witness ==
  /\ maxRequests >= 1
  /\ Len(metricsBufferSem) = maxRequests
  /\ posts = {}
  /\ batchesSent >= 1
  /\ batchesDropped >= 1
  /\ \E cb \in callbacks : Count(NoError, cb.errs) > 0
  /\ \E cb \in callbacks :
       Count(ErrMarshal, cb.errs) + Count(ErrPost, cb.errs) > 0
  /\ ctxDone

\* The entries of errs that are one of the errors E.
CountIn(errs, E) == Cardinality({i \in 1..Len(errs) : errs[i] \in E})

\* The same, over the errs of a set of collectors or of callbacks.
RECURSIVE Entries(_, _)
Entries(recs, E) ==
  IF recs = {} THEN 0
  ELSE LET r == CHOOSE x \in recs : TRUE
       IN CountIn(r.errs, E) + Entries(recs \ {r}, E)

\* The results that are one of the errors E: those a callback received, those
\* a collector holds, and those a post goroutine is about to send.
Delivered(E) ==
  Entries(callbacks, E) + Entries(collectors, E)
    + Cardinality({p \in posts : p.pc = "report" /\ p.err \in E})

\* The post calls that return one of the errors E in this step.
Returning(E) == {q \in posts' \ posts : q.pc = "report" /\ q.err \in E}

\* The post goroutines that end in this step having returned one of E.
Ending(E) == {p \in posts \ posts' : p.pc = "report" /\ p.err \in E}

\* The collector of p's call receives p's error in this step.
Collected(p) ==
  \E col \in collectors :
    /\ col.call = p.call
    /\ [col EXCEPT !.c = @ + 1, !.errs = Append(@, p.err)] \in collectors'

\* A batch whose retry budget expired is counted in batchesDropped in the step
\* of its last attempt and in no other step, and it had HTTP attempts.
ExhaustionCounted ==
  /\ batchesDropped' - batchesDropped =
       Cardinality(Returning({ErrPost, ErrMarshal}))
  /\ Returning({ErrPost}) # {} => UNCHANGED <<batchesSent, seriesSent>>
  /\ \A q \in Returning({ErrPost}) : q.attempted

\* C12, as stated: when every HTTP attempt of a batch fails and the retry
\* budget expires, batchesDropped is incremented exactly once for the batch,
\* batchesSent and seriesSent are not, and the error of the batch always
\* reaches the collector whose errs the callback receives.
C12_ExhaustionAlwaysReported ==
  [][ExhaustionCounted /\ \A p \in Ending({ErrPost}) : Collected(p)]_vars

\* C12 as amended: the accounting holds in every run; the error of the batch
\* reaches the callback, once, when the context is not cancelled before the
\* collector has received it: then the dropped batches are exactly the non-nil
\* results and the sent batches exactly the nil ones.
C12_ExhaustionAccounted ==
  /\ [][/\ ExhaustionCounted
        /\ \A p \in Ending({ErrPost}) : ~ctxDone => Collected(p)]_vars
  /\ [](~ctxDone =>
          /\ batchesDropped = Delivered({ErrPost, ErrMarshal})
          /\ batchesSent = Delivered({NoError})
          /\ \A cb \in callbacks : Len(cb.errs) = cb.counter)

\* A batch was retried, its budget expired, and the callback has its error.
C12_Witness ==
  /\ ~ctxDone
  /\ batchesRetried > 0
  /\ batchesSent = 0
  /\ batchesDropped = 1
  /\ \E cb \in callbacks : CountIn(cb.errs, {ErrPost}) = 1

\* C13, in the least it says: once the context is cancelled while post is
\* in progress (in an HTTP attempt or a backoff wait), post does not count the
\* batch as dropped and does not return the error of the POST.
C13_CancellationTerminal ==
  [][\A p \in posts :
       (ctxDone /\ p.live /\ p.pc \in {"attempt", "timer"}) =>
         \A q \in posts' :
           (q.call = p.call /\ q.id = p.id /\ q # p) =>
             /\ batchesDropped' = batchesDropped
             /\ q.err # ErrPost]_vars

\* C14: a batch that fails to marshal has no HTTP attempt and is not retried:
\* post returns at once with the error; batchesDropped is incremented by one
\* in that step, batchesSent, batchesRetried and seriesSent are unchanged.
C14_MarshalFailureNotRetried ==
  /\ [](\A p \in posts : p.err = ErrMarshal => p.pc = "report" /\ ~p.attempted)
  /\ [][\A q \in posts' \ posts :
          q.err = ErrMarshal =>
            /\ batchesDropped' = batchesDropped + 1
            /\ UNCHANGED <<batchesSent, batchesRetried, seriesSent>>]_vars

\* One flush had a batch that failed to marshal and another batch that was
\* posted; the callback has both results.
C14_Witness ==
  \E cb \in callbacks :
    /\ CountIn(cb.errs, {ErrMarshal}) = 1
    /\ CountIn(cb.errs, {NoError}) = 1
    /\ batchesDropped = 1
    /\ batchesSent = 1

\* The Go scheduler runs every goroutine that can take a step; an HTTP request
\* ends, a timer fires, and the retry budget is finite. Nothing obliges the
\* context to be cancelled or a flush to be started.
FairDD == WF_vars(PostStep) /\ WF_vars(CollectorStep)

SpecDDLive == InitDD /\ [][NextDD]_vars /\ FairDD

\* C15: for every SendMetricsAsync call on a successfully constructed client
\* with a finite retry budget, the callback is eventually invoked.
C15_CallbackDelivered ==
  \A k \in 1..MaxCalls :
    (\E col \in collectors : col.call = k) ~> (\E cb \in callbacks : cb.call = k)

\* ========================================================================
\* datadog.Client: SendEvent and the retry loop of post, with the clock
\* ========================================================================
maxConcurrentEvents == 20
Stop == -1                                \* backoff.Stop

\* NewClient: "if maxRequestElapsedTime <= 0 && maxRequestElapsedTime != -1"
\* is the error case.
NewClientAccepts(t) == ~(t <= 0 /\ t # -1)

\* (a variant that has no limit)
NextBackOff_NoLimit(maxElapsedTime, elapsed) == 1..MaxBackOffStep

\* b.NextBackOff() of the ExponentialBackOff post makes, with
\* b.MaxElapsedTime = d.maxRequestElapsedTime and elapsed the time since
\* b.Reset(): Stop once the elapsed time is over MaxElapsedTime, unless
\* MaxElapsedTime is 0; otherwise a randomized interval.
NextBackOff(maxElapsedTime, elapsed) ==
  IF maxElapsedTime # 0 /\ elapsed > maxElapsedTime THEN {Stop}
  ELSE 1..MaxBackOffStep

\* The buffers in d.eventsBufferSem: the caller in post holds one.
eventsBufferSem ==
  maxConcurrentEvents - (IF sendEvent.pc \in {"attempt", "timer"} THEN 1 ELSE 0)

otherThanSe == <<exceptCtxDone, wkVars, flVars, bkVars, cxVars, ctxDone,
                 maxRequestElapsedTime, maxRequests, metricsBufferSem, posts,
                 collectors, callbacks, callsLeft, postsLeft, batchesCreated,
                 seriesSent>>

\* SendEvent returns err; the deferred function has put the buffer back.
SendEventReturns(err, elapsed, attempt, attempts) ==
  sendEvent' = [sendEvent EXCEPT !.pc = "idle", !.err = err,
                                 !.elapsed = elapsed, !.attempt = attempt,
                                 !.attempts = attempts]

\* SendEvent: select, case <-ctx.Done(): return ctx.Err().
SendEventCtxDone ==
  /\ sendEvent.pc = "idle"
  /\ sendEvent.left > 0
  /\ ctxDone
  /\ sendEvent' = [sendEvent EXCEPT !.left = @ - 1, !.err = ErrCanceled,
                                    !.elapsed = 0, !.attempt = 0, !.next = 0,
                                    !.attempts = 0]
  /\ UNCHANGED <<otherThanSe, batchesDropped, batchesSent, batchesRetried>>

\* SendEvent: select, case buffer := <-d.eventsBufferSem; post begins:
\* constructPost marshals the event, or fails to, and b.Reset() starts the clock.
SendEvent(marshalled) ==
  /\ sendEvent.pc = "idle"
  /\ sendEvent.left > 0
  /\ eventsBufferSem > 0
  /\ sendEvent' = [sendEvent EXCEPT
                     !.left = @ - 1,
                     !.pc = IF marshalled THEN "attempt" ELSE "idle",
                     !.err = IF marshalled THEN NoError ELSE ErrMarshal,
                     !.elapsed = 0, !.attempt = 0, !.next = 0, !.attempts = 0]
  /\ batchesDropped' = IF marshalled THEN batchesDropped
                                     ELSE AddUint64(batchesDropped, 1)
  /\ UNCHANGED <<otherThanSe, batchesSent, batchesRetried>>

\* post: one turn of the loop. The HTTP attempt takes d ticks; it succeeds, or
\* it fails and b.NextBackOff() is asked: on Stop the batch is counted as
\* dropped and the POST error returned, otherwise a timer is started.
SendEventAttempt(d, ok) ==
  /\ sendEvent.pc = "attempt"
  /\ LET elapsed == sendEvent.elapsed + d
         attempts == sendEvent.attempts + 1
     IN IF ok
        THEN /\ SendEventReturns(NoError, elapsed, d, attempts)
             /\ batchesSent' = AddUint64(batchesSent, 1)
             /\ UNCHANGED batchesDropped
        ELSE \E next \in NextBackOff(maxRequestElapsedTime, elapsed) :
               IF next = Stop
               THEN /\ SendEventReturns(ErrPost, elapsed, d, attempts)
                    /\ batchesDropped' = AddUint64(batchesDropped, 1)
                    /\ UNCHANGED batchesSent
               ELSE /\ sendEvent' = [sendEvent EXCEPT
                                       !.pc = "timer", !.elapsed = elapsed,
                                       !.attempt = d, !.attempts = attempts,
                                       !.next = next]
                    /\ UNCHANGED <<batchesSent, batchesDropped>>
  /\ UNCHANGED <<otherThanSe, batchesRetried>>

\* post: select, case <-ctx.Done(): timer.Stop(); return ctx.Err().
SendEventTimerCtxDone ==
  /\ sendEvent.pc = "timer"
  /\ ctxDone
  /\ SendEventReturns(ErrCanceled, sendEvent.elapsed, sendEvent.attempt,
                      sendEvent.attempts)
  /\ UNCHANGED <<otherThanSe, batchesDropped, batchesSent, batchesRetried>>

\* post: select, case <-timer.C, after the interval; the retry is counted.
SendEventTimerFires ==
  /\ sendEvent.pc = "timer"
  /\ sendEvent' = [sendEvent EXCEPT !.pc = "attempt",
                                    !.elapsed = @ + sendEvent.next]
  /\ batchesRetried' = AddUint64(batchesRetried, 1)
  /\ UNCHANGED <<otherThanSe, batchesDropped, batchesSent>>

InitRetry ==
  /\ CHInit
  /\ capture = FALSE
  /\ endless = FALSE
  /\ metricsLeft = 0
  /\ eventsLeft = 0
  /\ WkInit(0)
  /\ DDInit(0, 0, 0)
  /\ FlInit
  /\ BkInit(0)
  /\ SeInit({t \in -1..MaxElapsed : NewClientAccepts(t)}, MaxSendEvents)
  /\ CxInit("Client")

NextRetry ==
  \/ SendEventCtxDone
  \/ \E marshalled \in BOOLEAN : SendEvent(marshalled)
  \/ \E d \in 0..MaxAttemptTicks, ok \in BOOLEAN : SendEventAttempt(d, ok)
  \/ SendEventTimerCtxDone
  \/ SendEventTimerFires
  \/ CtxCancel

SpecRetry == InitRetry /\ [][NextRetry]_vars

\* post returns in this step.
PostReturns == sendEvent.pc \in {"attempt", "timer"} /\ sendEvent'.pc = "idle"

\* C22: infinite retry budget. With maxRequestElapsedTime = -1 a post whose
\* HTTP attempts fail is retried without limit: it is never counted in
\* batchesDropped, and it ends only by success or by cancellation.
C22_InfiniteRetryBudget ==
  [][(maxRequestElapsedTime = -1 /\ sendEvent.pc \in {"attempt", "timer"}) =>
       /\ batchesDropped' = batchesDropped
       /\ PostReturns => sendEvent'.err \in {NoError, ErrCanceled}]_vars

\* C23 as claimed: for a positive maxRequestElapsedTime, the time from the
\* start of a post call is never more than maxRequestElapsedTime plus one
\* backoff step (the longest there is), up to and including its return.
C23_RetryBounded ==
  maxRequestElapsedTime > 0 =>
    sendEvent.elapsed <= maxRequestElapsedTime + MaxBackOffStep

\* C23 as amended: the budget is looked at only after a failed attempt. So a
\* backoff wait begins within maxRequestElapsedTime, an attempt begins within
\* maxRequestElapsedTime plus the wait before it, and post returns within
\* maxRequestElapsedTime plus its last wait plus the time of its last HTTP
\* attempt, which the budget does not limit.
C23_BoundedUpToLastAttempt ==
  maxRequestElapsedTime > 0 =>
    /\ sendEvent.pc = "timer" => sendEvent.elapsed <= maxRequestElapsedTime
    /\ sendEvent.pc = "attempt" =>
         sendEvent.elapsed <= maxRequestElapsedTime + sendEvent.next
    /\ sendEvent.pc = "idle" =>
         sendEvent.elapsed
           <= maxRequestElapsedTime + sendEvent.next + sendEvent.attempt
    /\ sendEvent.elapsed
         <= maxRequestElapsedTime + MaxBackOffStep + MaxAttemptTicks

\* A post was retried, ran out of budget in its last attempt and returned
\* later than maxRequestElapsedTime plus the longest backoff step.
C23_Witness ==
  /\ maxRequestElapsedTime > 0
  /\ sendEvent.pc = "idle"
  /\ sendEvent.err = ErrPost
  /\ sendEvent.attempts >= 2
  /\ sendEvent.elapsed > maxRequestElapsedTime + MaxBackOffStep
  /\ sendEvent.elapsed
       = maxRequestElapsedTime + sendEvent.next + sendEvent.attempt

\* C26: batch accounting. In every reachable state batchesSent +
\* batchesDropped is at most batchesCreated, and when no post is in flight
\* and the context was not cancelled they are equal, for any sequence of
\* SendMetricsAsync and SendEvent calls on the client.
C26_BatchAccounting ==
  /\ batchesSent + batchesDropped <= batchesCreated
  /\ (posts = {} /\ sendEvent.pc = "idle" /\ ~ctxDone) =>
       batchesCreated = batchesSent + batchesDropped

\* ========================================================================
\* datadog.Client.processMetrics: a MetricMap is cut into batches
\* ========================================================================
MaxKeys == 1
MaxTimers == 1
MaxBuckets == 2
MaxPercentiles == 1
MaxPerBatch == 2

\* gostatsd.TimerSubtypes, in the order processMetrics tests them, with the
\* suffix of the series each one adds.
TimerSubtypes ==
  <<[subtype |-> "Lower", suffix |-> ".lower"],
    [subtype |-> "Upper", suffix |-> ".upper"],
    [subtype |-> "Count", suffix |-> ".count"],
    [subtype |-> "CountPerSecond", suffix |-> ".count_ps"],
    [subtype |-> "Mean", suffix |-> ".mean"],
    [subtype |-> "Median", suffix |-> ".median"],
    [subtype |-> "StdDev", suffix |-> ".std"],
    [subtype |-> "Sum", suffix |-> ".sum"],
    [subtype |-> "SumSquares", suffix |-> ".sum_squares"]>>

AllSubtypes == {TimerSubtypes[i].subtype : i \in 1..Len(TimerSubtypes)}

\* The settings of d.disabledSubtypes that are tried.
DisabledChoices == {{}, {"Lower", "Upper"}, AllSubtypes}

\* A timer: Histogram is the number of buckets, -1 for a nil map; Percentiles is
\* the number of percentiles.
NilHistogram == -1
TimerKinds ==
  {[Histogram |-> h, Percentiles |-> 0] : h \in 0..MaxBuckets} \cup
  {[Histogram |-> NilHistogram, Percentiles |-> k] : k \in 0..MaxPercentiles}

MetricMaps ==
  [Counters : 0..MaxKeys,
   Timers : UNION {[1..n -> TimerKinds] : n \in 0..MaxTimers},
   Gauges : 0..MaxKeys,
   Sets : 0..MaxKeys]

\* flush.addMetric and flush.addMetricf: the series is appended to fl.ts.Series.
addMetric(ts, series) == Append(ts, series)

\* flush.maybeFlush: a batch that has reached metricsPerBatch goes to cb and a
\* new one is started. The result is <<fl.ts.Series, the batches cb has seen>>.
maybeFlush(ts, batches, perBatch) ==
  IF Len(ts) >= perBatch THEN <<<<>>, Append(batches, ts)>> ELSE <<ts, batches>>

\* flush.finish: a non-empty last batch goes to cb.
finish(ts, batches) ==
  IF Len(ts) > 0 THEN Append(batches, ts) ELSE batches

RECURSIVE AddSubtypes(_, _, _)
\* The nine "if !d.disabledSubtypes.X { fl.addMetricf(...) }", from the i-th on.
AddSubtypes(ts, disabled, i) ==
  IF i > Len(TimerSubtypes) THEN ts
  ELSE AddSubtypes(IF TimerSubtypes[i].subtype \in disabled
                     THEN ts
                     ELSE addMetric(ts, TimerSubtypes[i].suffix),
                   disabled, i + 1)

RECURSIVE AddTimes(_, _, _)
\* n times fl.addMetricf of a series named series.
AddTimes(ts, series, n) ==
  IF n = 0 THEN ts ELSE AddTimes(addMetric(ts, series), series, n - 1)

\* The body of metrics.Counters.Each, before its maybeFlush.
CounterSeries(ts) == addMetric(addMetric(ts, "rate"), ".count")

\* The body of metrics.Timers.Each, before its maybeFlush.
TimerSeries(ts, timer, disabled) ==
  IF timer.Histogram # NilHistogram
    THEN AddTimes(ts, ".histogram", timer.Histogram)
    ELSE AddTimes(AddSubtypes(ts, disabled, 1), ".percentile", timer.Percentiles)

\* The body of metrics.Gauges.Each and of metrics.Sets.Each, before maybeFlush.
GaugeSeries(ts) == addMetric(ts, "gauge")

otherThanFl == <<chVars, wkVars, ddVars, bkVars, seVars, cxVars>>

\* processMetrics is entered: the flush is built around an empty batch.
ProcessMetrics(metrics, perBatch, disabled) ==
  /\ flPc = "idle"
  /\ flPc' = "each"
  /\ flMetrics' = metrics
  /\ metricsPerBatch' = perBatch
  /\ disabledSubtypes' = disabled
  /\ flTs' = <<>>
  /\ flBatches' = <<>>
  /\ UNCHANGED otherThanFl

FlStep(ts, metrics) ==
  LET r == maybeFlush(ts, flBatches, metricsPerBatch)
  IN /\ flTs' = r[1]
     /\ flBatches' = r[2]
     /\ flMetrics' = metrics
     /\ UNCHANGED <<flPc, metricsPerBatch, disabledSubtypes, otherThanFl>>

\* One call of the function given to metrics.Counters.Each.
EachCounter ==
  /\ flPc = "each"
  /\ flMetrics.Counters > 0
  /\ FlStep(CounterSeries(flTs), [flMetrics EXCEPT !.Counters = @ - 1])

\* One call of the function given to metrics.Timers.Each.
EachTimer ==
  /\ flPc = "each"
  /\ flMetrics.Counters = 0
  /\ Len(flMetrics.Timers) > 0
  /\ FlStep(TimerSeries(flTs, Head(flMetrics.Timers), disabledSubtypes),
            [flMetrics EXCEPT !.Timers = Tail(@)])

\* One call of the function given to metrics.Gauges.Each.
EachGauge ==
  /\ flPc = "each"
  /\ flMetrics.Counters = 0
  /\ Len(flMetrics.Timers) = 0
  /\ flMetrics.Gauges > 0
  /\ FlStep(GaugeSeries(flTs), [flMetrics EXCEPT !.Gauges = @ - 1])

\* One call of the function given to metrics.Sets.Each.
EachSet ==
  /\ flPc = "each"
  /\ flMetrics.Counters = 0
  /\ Len(flMetrics.Timers) = 0
  /\ flMetrics.Gauges = 0
  /\ flMetrics.Sets > 0
  /\ FlStep(GaugeSeries(flTs), [flMetrics EXCEPT !.Sets = @ - 1])

\* fl.finish(), after the four walks.
FlFinish ==
  /\ flPc = "each"
  /\ flMetrics.Counters = 0
  /\ Len(flMetrics.Timers) = 0
  /\ flMetrics.Gauges = 0
  /\ flMetrics.Sets = 0
  /\ flBatches' = finish(flTs, flBatches)
  /\ flTs' = <<>>
  /\ flPc' = "done"
  /\ UNCHANGED <<flMetrics, metricsPerBatch, disabledSubtypes, otherThanFl>>

InitBatch ==
  /\ CHInit
  /\ capture = FALSE
  /\ endless = FALSE
  /\ metricsLeft = 0
  /\ eventsLeft = 0
  /\ WkInit(0)
  /\ DDInit(0, 0, 0)
  /\ FlInit
  /\ BkInit(0)
  /\ SeInit({MaxElapsed}, 0)
  /\ CxInit("Client")

NextBatch ==
  \/ \E metrics \in MetricMaps, perBatch \in 1..MaxPerBatch,
        disabled \in DisabledChoices :
       ProcessMetrics(metrics, perBatch, disabled)
  \/ EachCounter
  \/ EachTimer
  \/ EachGauge
  \/ EachSet
  \/ FlFinish

SpecBatch == InitBatch /\ [][NextBatch]_vars

\* C5: every batch processMetrics hands to its callback has at most
\* metricsPerBatch series.
C5_BatchSizeCap ==
  \A i \in 1..Len(flBatches) : Len(flBatches[i]) <= metricsPerBatch

\* ------------------------------------------------------------------------
\* The backend registry: GetBackend and InitBackend
\* ------------------------------------------------------------------------
MaxInits == 2

\* Three of the names in the backends map, the empty name, and a name that
\* is not in the map.
RegisteredBackends == {"datadog", "graphite", "null"}

\* A gostatsd.Backend value: the nil interface, an interface holding a nil
\* pointer (what "return NewClient(...)" yields when NewClient returns a nil
\* *Client), or a client.
NilBackend == "nil"
TypedNilBackend == "(*Client)(nil)"
ErrCouldNotInit == "could not init backend"
ErrUnknownBackend == "unknown backend"

\* What the factory of a registered name may return. null.NewClientFromViper
\* returns a client and no error; the others depend on the configuration.
\* For a name that is not registered no factory is called.
FactoryOutcomes(name) ==
  IF name \notin RegisteredBackends
  THEN {[backend |-> NilBackend, err |-> NoError]}
  ELSE IF name = "null" THEN {[backend |-> "null", err |-> NoError]}
  ELSE {[backend |-> b, err |-> e] :
          b \in {NilBackend, TypedNilBackend, name},
          e \in {NoError, "apiKey is required"}}

\* GetBackend: (nil, nil) when the name is not known, else what f returns.
GetBackend(name, out) ==
  IF name \notin RegisteredBackends THEN [backend |-> NilBackend, err |-> NoError]
  ELSE out

InitBackend_Unchecked(name, out) == GetBackend(name, out)

\* InitBackend.
InitBackend(name, out) ==
  IF name = "" THEN [backend |-> NilBackend, err |-> NoError]
  ELSE LET r == GetBackend(name, out)
       IN IF r.err # NoError
          THEN [backend |-> NilBackend, err |-> ErrCouldNotInit]
          ELSE IF r.backend = NilBackend
          THEN [backend |-> NilBackend, err |-> ErrUnknownBackend]
          ELSE [backend |-> r.backend, err |-> NoError]

\* One call of InitBackend(name, ...), the factory returning out if called.
InitBackendCall(name, out) ==
  /\ initsLeft > 0
  /\ initsLeft' = initsLeft - 1
  /\ initialised' = Append(initialised,
       [name |-> name, out |-> out, result |-> InitBackend(name, out)])
  /\ UNCHANGED <<chVars, wkVars, ddVars, flVars, seVars, cxVars>>

InitRegistry ==
  /\ CHInit
  /\ capture = FALSE
  /\ endless = FALSE
  /\ metricsLeft = 0
  /\ eventsLeft = 0
  /\ WkInit(0)
  /\ DDInit(0, 0, 0)
  /\ FlInit
  /\ BkInit(MaxInits)
  /\ SeInit({MaxElapsed}, 0)
  /\ CxInit("backends")

NextRegistry ==
  \E name \in RegisteredBackends \cup {"", "nope"} :
    \E out \in FactoryOutcomes(name) :
      InitBackendCall(name, out)

SpecRegistry == InitRegistry /\ [][NextRegistry]_vars

\* C18: InitBackend with an empty name returns (nil, nil); with an unknown
\* name no backend and the error "unknown backend"; with a registered name
\* whose factory fails no backend and the error "could not init backend",
\* which is not the unknown-name error; with a registered name whose factory
\* succeeds (such as "null") the backend and no error. A factory that returns
\* (nil, nil) is not reported as success.
C18_BackendRegistry ==
  \A k \in 1..Len(initialised) :
    LET c == initialised[k]
        registered == c.name \in RegisteredBackends
    IN /\ c.name = "" =>
            c.result = [backend |-> NilBackend, err |-> NoError]
       /\ (c.name # "" /\ ~registered) =>
            c.result = [backend |-> NilBackend, err |-> ErrUnknownBackend]
       /\ (registered /\ c.out.err # NoError) =>
            /\ c.result = [backend |-> NilBackend, err |-> ErrCouldNotInit]
            /\ c.result.err # ErrUnknownBackend
       /\ (registered /\ c.out.err = NoError /\ c.out.backend # NilBackend) =>
            c.result = [backend |-> c.out.backend, err |-> NoError]
       /\ c.name = "null" =>
            c.result = [backend |-> "null", err |-> NoError]
       /\ (registered /\ c.out = [backend |-> NilBackend, err |-> NoError]) =>
            /\ c.result.backend = NilBackend
            /\ c.result.err # NoError

\* "null" was initialised, and a registered factory returned (nil, nil).
C18_Witness ==
  /\ \E k \in 1..Len(initialised) : initialised[k].name = "null"
  /\ \E k \in 1..Len(initialised) :
       /\ initialised[k].name = "datadog"
       /\ initialised[k].out = [backend |-> NilBackend, err |-> NoError]

\* ------------------------------------------------------------------------
\* Shutdown: the loops of the components and the cancellation of the root
\* context (SpecCancel)
\* ------------------------------------------------------------------------
\* The goroutines followed through a shutdown, one group in each behaviour.
Components ==
  {"CloudHandler", "CloudHandler.RunMetrics", "Client", "Client.Run", "worker"}

otherThanLoops == <<chVars, wkVars, ddVars, flVars, bkVars, seVars, focus>>

\* Client.Run: case <-ctx.Done(): return
ClientRunCtxDone ==
  /\ loops.clientRun = "select"
  /\ ctxDone
  /\ loops' = [loops EXCEPT !.clientRun = "returned"]
  /\ UNCHANGED otherThanLoops

\* Client.Run: case <-flushed
ClientRunFlushed ==
  /\ loops.clientRun = "select"
  /\ loops' = [loops EXCEPT !.clientRun = "gauges"]
  /\ UNCHANGED otherThanLoops

\* Client.Run: the five gauges are sent and the loop goes on.
ClientRunGauges ==
  /\ loops.clientRun = "gauges"
  /\ loops' = [loops EXCEPT !.clientRun = "select"]
  /\ UNCHANGED otherThanLoops

\* CloudHandler.RunMetrics: case <-ctx.Done(): return
RunMetricsCtxDone ==
  /\ loops.runMetrics = "select"
  /\ ctxDone
  /\ loops' = [loops EXCEPT !.runMetrics = "returned"]
  /\ UNCHANGED otherThanLoops

\* CloudHandler.RunMetrics: case <-flushed
RunMetricsFlushed ==
  /\ loops.runMetrics = "select"
  /\ loops' = [loops EXCEPT !.runMetrics = "scheduleEmit"]
  /\ UNCHANGED otherThanLoops

\* scheduleEmit: a select with a default case, which never blocks.
ScheduleEmit ==
  /\ loops.runMetrics = "scheduleEmit"
  /\ loops' = [loops EXCEPT !.runMetrics = "select"]
  /\ UNCHANGED otherThanLoops

\* The owner of the workers' queues terminates its workers on cancel: it
\* closes metricMapQueue, the only thing work returns on.
DispatcherCtxDone ==
  /\ ctxDone
  /\ CloseQueue

\* The callers of the CloudHandler pass items of one host.
CancelSources == {"10.0.0.1"}

InitCancel ==
  /\ \E component \in Components : CxInit(component)
  /\ CHInit
  /\ capture = FALSE
  /\ endless = FALSE
  /\ metricsLeft = (IF focus = "CloudHandler" THEN CancelMetrics ELSE 0)
  /\ eventsLeft = (IF focus = "CloudHandler" THEN CancelEvents ELSE 0)
  /\ \E c \in 0..1 : WkInit(IF focus = "worker" THEN c ELSE 0)
  /\ \E n \in 0..1 :
       IF focus = "Client" THEN DDInit(n, CancelCalls, CancelPosts)
       ELSE DDInit(0, 0, 0)
  /\ FlInit
  /\ BkInit(0)
  /\ SeInit({MaxElapsed}, 0)

NextCancel ==
  \/ CtxCancel
  \/ focus = "CloudHandler" /\ RunCtxDone
  \/ focus = "CloudHandler" /\ RunSendLookup
  \/ focus = "CloudHandler" /\ \E info \in infoOut : RunRecvInfo(info)
  \/ focus = "CloudHandler" /\ RunRecvMetrics
  \/ focus = "CloudHandler" /\ RunRecvEvent
  \/ focus = "CloudHandler" /\ \E b \in MetricBatches(CancelSources) : PMCall(b)
  \/ focus = "CloudHandler" /\ PMLoop
  \/ focus = "CloudHandler" /\ PMDispatch
  \/ focus = "CloudHandler" /\ PMCtxDone
  \/ focus = "CloudHandler" /\ \E src \in CancelSources : DispatchEventCall(src)
  \/ focus = "CloudHandler" /\ DispatchEventCtxDone
  \/ focus = "CloudHandler" /\ \E g \in metricGos : UpdateAndDispatchMetrics(g)
  \/ focus = "CloudHandler" /\ \E g \in eventGos : UpdateAndDispatchEvent(g)
  \/ focus = "CloudHandler" /\ \E g \in eventGos : UpdateAndDispatchEventsReturn(g)
  \/ focus = "CloudHandler" /\ \E ip \in IPs : ProviderLookup(ip)
  \/ focus = "CloudHandler.RunMetrics" /\ RunMetricsCtxDone
  \/ focus = "CloudHandler.RunMetrics" /\ RunMetricsFlushed
  \/ focus = "CloudHandler.RunMetrics" /\ ScheduleEmit
  \/ focus = "Client.Run" /\ ClientRunCtxDone
  \/ focus = "Client.Run" /\ ClientRunFlushed
  \/ focus = "Client.Run" /\ ClientRunGauges
  \/ focus = "Client" /\ \E sizes \in BatchSizes : SendMetricsAsync(sizes)
  \/ focus = "Client" /\ PostStep
  \/ focus = "Client" /\ CollectorStep
  \/ focus = "worker" /\ nextMap < CancelMaps /\ PutMap
  \/ focus = "worker" /\ nextCmd < CancelCmds /\ SubmitProcess
  \/ focus = "worker" /\ DispatcherCtxDone
  \/ focus = "worker" /\ WorkRecvMap
  \/ focus = "worker" /\ nextMap < CancelMaps /\ WorkRecvMapDirect
  \/ focus = "worker" /\ WorkRecvClosed
  \/ focus = "worker" /\ WorkReceiveMap
  \/ focus = "worker" /\ \E cmd \in cmdWaiting : WorkRecvCmd(cmd)
  \/ focus = "worker" /\ WorkRunF
  \/ focus = "worker" /\ WorkDone

\* The Go scheduler runs every goroutine that can take a step, and a select
\* picks at random among its ready cases, so that a case which is ready again
\* and again is taken. Nothing obliges the context to be cancelled, a caller
\* to call, a flush to be signalled or the provider to answer.
FairCancel ==
  /\ WF_runPc(focus = "CloudHandler" /\ RunCtxDone)
  /\ WF_pmPc(focus = "CloudHandler" /\ PMCtxDone)
  /\ WF_evPc(focus = "CloudHandler" /\ DispatchEventCtxDone)
  /\ SF_loops(focus = "CloudHandler.RunMetrics" /\ RunMetricsCtxDone)
  /\ WF_loops(focus = "CloudHandler.RunMetrics" /\ ScheduleEmit)
  /\ SF_loops(focus = "Client.Run" /\ ClientRunCtxDone)
  /\ WF_loops(focus = "Client.Run" /\ ClientRunGauges)
  /\ WF_posts(focus = "Client" /\ PostStep)
  /\ WF_collectors(focus = "Client" /\ CollectorStep)
  /\ WF_queueClosed(focus = "worker" /\ DispatcherCtxDone)
  /\ WF_wkPc(focus = "worker" /\ WorkRecvMap)
  /\ SF_wkPc(focus = "worker" /\ WorkRecvClosed)
  /\ WF_wkPc(focus = "worker" /\ WorkReceiveMap)
  /\ WF_wkPc(focus = "worker" /\ WorkRunF)
  /\ WF_wkPc(focus = "worker" /\ WorkDone)

SpecCancel == InitCancel /\ [][NextCancel]_vars /\ FairCancel

LoopsReturned ==
  CASE focus = "CloudHandler" -> runPc = "returned"
    [] focus = "CloudHandler.RunMetrics" -> loops.runMetrics = "returned"
    [] focus = "Client" -> posts = {} /\ collectors = {}
    [] focus = "Client.Run" -> loops.clientRun = "returned"
    [] OTHER -> wkPc = "returned"

====
